---- MODULE Spec2Model ----
(***************************************************************************)
(* Verification model of MinZX_SDL: the WD1793 floppy disk controller      *)
(* (src/disk/fdc.c) with its TRD sector store (src/disk/trd.c), the        *)
(* unified TAP/TZX tape pulse engine and the per-scanline main loop        *)
(* (src/minzx.c).                                                          *)
(***************************************************************************)
EXTENDS Integers, Sequences, FiniteSets, TLC

VARIABLES
    fdc,        \* fdc_t: the controller registers, state and sector buffer
    images,     \* the trd_image_t objects, by image id
    env,        \* what the program driving the FDC ports is doing
    tape,       \* tape_t: the tape engine
    mach,       \* CPU cycle counter, global_cycles and the scanline loop
    obs         \* observations of the tape engine's edges

vars == <<fdc, images, env, tape, mach, obs>>

----------------------------------------------------------------------------
(* Bounds of the model *)

\* number of distinct 256-byte payloads the driving program writes
NumPatterns == 2
\* fdc_step calls of one scanline (224 T-states) explored per command
MaxLineSteps == 2
\* bytes at the start of a sector transfer that SpecFdc moves one per step
EdgeBytes == 2
\* the head is stepped in and out from the tracks up to this one and from
\* track 78 up
MaxStepTrack == 2
\* commands, register writes and attach, detach and reset calls of one run;
\* data-port accesses and fdc_step calls are not counted
MaxOps == 3

----------------------------------------------------------------------------
(* src/disk/fdc.h, src/disk/trd.h: constants *)

FDC_PORT_STATUS  == 31
FDC_PORT_TRACK   == 63
FDC_PORT_SECTOR  == 95
FDC_PORT_DATA    == 127
FDC_PORT_CONTROL == 255

FDC_CMD_RESTORE      == 0
FDC_CMD_SEEK         == 16
FDC_CMD_STEP         == 32
FDC_CMD_STEP_IN      == 64
FDC_CMD_STEP_OUT     == 96
FDC_CMD_READ_SECTOR  == 128
FDC_CMD_WRITE_SECTOR == 160
FDC_CMD_READ_ADDRESS == 192
FDC_CMD_FORCE_INT    == 208

FDC_STATUS_BUSY       == 1
FDC_STATUS_DRQ        == 2
FDC_STATUS_LOST_DATA  == 4
FDC_STATUS_CRC_ERROR  == 8
FDC_STATUS_RNF        == 16
FDC_STATUS_WRITE_PROT == 64
FDC_STATUS_NOT_READY  == 128

FDC_CONTROL_DRIVE_MASK == 3
FDC_CONTROL_SIDE       == 16

TRD_SECTORS_PER_TRACK == 16
TRD_SECTOR_SIZE       == 256
TRD_BYTES_PER_TRACK   == TRD_SECTORS_PER_TRACK * TRD_SECTOR_SIZE

\* a line of the frame: the argument main() gives fdc_step and z80_step_n
LINE_TSTATES == 224

\* NULL of drives[] and of trd_image_t*
NULL == 0

----------------------------------------------------------------------------
(* Bit helpers: a status byte is kept as the set of its bits that are set *)

\* x & mask for a one-bit mask
BitSet(x, mask) == (x \div mask) % 2 = 1

\* the high nibble of a command byte: cmd & 0xF0
HighNibble(cmd) == (cmd \div 16) * 16

\* uint8_t truncation
U8(x) == x % 256

----------------------------------------------------------------------------
(* Disk images (src/disk/trd.c).  The file is kept as the sectors that     *)
(* have been written plus the content the file was opened with.            *)

ImageIds == {1, 2}

\* the byte at position i of the 256-byte unit u of image id as first opened
OrigByte(id, u, i) == (id + u + i) % 4

OrigSector(id, u) == [i \in 0 .. TRD_SECTOR_SIZE - 1 |-> OrigByte(id, u, i)]

\* the payloads the driving program writes
Patterns == 1 .. NumPatterns
PatByte(p, i) == (4 + p + i * p) % 8
PatSector(p) == [i \in 0 .. TRD_SECTOR_SIZE - 1 |-> PatByte(p, i)]

\* trd_get_offset
trd_get_offset(img, track, head, sector) ==
    IF track >= img.tracks \/ head >= img.sides \/ sector >= TRD_SECTORS_PER_TRACK
    THEN -1
    ELSE track * img.sides * TRD_BYTES_PER_TRACK
         + head * TRD_BYTES_PER_TRACK + sector * TRD_SECTOR_SIZE

\* the 256 bytes of the file at a sector-aligned offset
FileSector(id, img, offset) ==
    LET u == offset \div TRD_SECTOR_SIZE
    IN  IF u \in DOMAIN img.written THEN img.written[u] ELSE OrigSector(id, u)

\* trd_read_sector: <<ok, buffer>>; fread returns short past the end of file
trd_read_sector(id, track, head, sector, buffer) ==
    IF id = NULL THEN <<FALSE, buffer>>
    ELSE LET img == images[id]
             offset == trd_get_offset(img, track, head, sector)
         IN  IF offset < 0 THEN <<FALSE, buffer>>
             ELSE IF offset + TRD_SECTOR_SIZE > img.size THEN <<FALSE, buffer>>
             ELSE <<TRUE, FileSector(id, img, offset)>>

\* trd_write_sector: <<ok, image after the call>>
trd_write_sector(img, track, head, sector, buffer) ==
    IF img.read_only THEN <<FALSE, img>>
    ELSE LET offset == trd_get_offset(img, track, head, sector)
             u == offset \div TRD_SECTOR_SIZE
         IN  IF offset < 0 THEN <<FALSE, img>>
             ELSE <<TRUE,
                    [img EXCEPT
                       !.written = [v \in (DOMAIN img.written) \cup {u} |->
                                       IF v = u THEN buffer ELSE img.written[v]],
                       !.size = IF offset + TRD_SECTOR_SIZE > img.size
                                THEN offset + TRD_SECTOR_SIZE ELSE img.size,
                       !.modified = TRUE]>>

\* trd_open's result for a 655360-byte file of type 0x16: image 1 opened
\* read-write, image 2 opened read-only
InitImages ==
    [id \in ImageIds |->
        [read_only |-> (id = 2), modified |-> FALSE, tracks |-> 80, sides |-> 2,
         size |-> 655360, written |-> [v \in {} |-> 0]]]

----------------------------------------------------------------------------
(* FDC (src/disk/fdc.c) *)

ZeroBuffer == [i \in 0 .. TRD_SECTOR_SIZE - 1 |-> 0]

\* fdc_init: memset 0, status NOT_READY, state idle.  The last five fields
\* observe the run: issued says that a command has been written since
\* fdc_init or fdc_reset; irqs and drqs count the calls irq_callback(true)
\* and drq_callback(true) since the last command was written; xfer counts
\* the bytes moved through the data port since then; outs is 1 once the
\* data port has been written outside a transfer since then.
fdc_init ==
    [status |-> {FDC_STATUS_NOT_READY}, track |-> 0, sector |-> 0, data |-> 0,
     command |-> 0, control |-> 0, current_drive |-> 0, current_side |-> 0,
     state |-> "IDLE", delay_tstates |-> 0, sector_buffer |-> ZeroBuffer,
     buffer_pos |-> 0, buffer_len |-> 0, drives |-> [d \in 0 .. 3 |-> NULL],
     issued |-> FALSE, irqs |-> 0, drqs |-> 0, xfer |-> 0, outs |-> 0]

\* fdc_get_current_drive
fdc_get_current_drive(f) == f.drives[f.current_drive]

\* the irq_callback(true) call site
RaiseIrq(f) == [f EXCEPT !.irqs = @ + 1]

\* the rejection path of the data commands: error bit, not busy, idle, IRQ
RejectCommand(f, bit) ==
    RaiseIrq([f EXCEPT !.status = (@ \cup {bit}) \ {FDC_STATUS_BUSY},
                       !.state = "IDLE"])

\* Type I commands of fdc_execute_command, f being the state after lines 68-70
TypeICommand(f, cmd_type) ==
    CASE cmd_type = FDC_CMD_RESTORE ->
           [f EXCEPT !.track = 0, !.delay_tstates = 3500 * 6, !.state = "BUSY"]
      [] cmd_type = FDC_CMD_SEEK ->
           LET diff == IF f.data > f.track THEN f.data - f.track
                       ELSE f.track - f.data
           IN  [f EXCEPT !.track = f.data, !.delay_tstates = 3500 * (6 + diff),
                         !.state = "BUSY"]
      [] cmd_type \in {FDC_CMD_STEP, FDC_CMD_STEP_IN} ->
           [f EXCEPT !.track = IF cmd_type = FDC_CMD_STEP_IN /\ f.track < 79
                               THEN f.track + 1 ELSE f.track,
                     !.delay_tstates = 3500 * 6, !.state = "BUSY"]
      [] cmd_type = FDC_CMD_STEP_OUT ->
           [f EXCEPT !.track = IF f.track > 0 THEN f.track - 1 ELSE f.track,
                     !.delay_tstates = 3500 * 6, !.state = "BUSY"]

\* case FDC_CMD_READ_SECTOR
ReadSectorCommand(f) ==
    LET id == fdc_get_current_drive(f)
        sector_num == IF f.sector > 0 THEN f.sector - 1 ELSE 0
        rd == trd_read_sector(id, f.track, f.current_side, sector_num,
                              f.sector_buffer)
    IN  IF id = NULL THEN RejectCommand(f, FDC_STATUS_RNF)
        ELSE IF rd[1]
        THEN [f EXCEPT !.sector_buffer = rd[2], !.buffer_pos = 0,
                       !.buffer_len = 256, !.state = "READ_DATA",
                       !.delay_tstates = 3500 * 10,
                       !.status = @ \cup {FDC_STATUS_DRQ}, !.drqs = @ + 1]
        ELSE RejectCommand(f, FDC_STATUS_RNF)

\* a Write Sector that forgets the read-only check
WriteSectorCommandNoProtect(f) ==
    LET id == fdc_get_current_drive(f)
    IN  IF id = NULL THEN RejectCommand(f, FDC_STATUS_RNF)
        ELSE [f EXCEPT !.buffer_pos = 0, !.buffer_len = 256,
                       !.state = "WRITE_DATA", !.delay_tstates = 3500 * 10,
                       !.status = @ \cup {FDC_STATUS_DRQ}, !.drqs = @ + 1]

\* case FDC_CMD_WRITE_SECTOR
WriteSectorCommand(f) ==
    LET id == fdc_get_current_drive(f)
    IN  IF id = NULL THEN RejectCommand(f, FDC_STATUS_RNF)
        ELSE IF images[id].read_only
        THEN RejectCommand(f, FDC_STATUS_WRITE_PROT)
        ELSE [f EXCEPT !.buffer_pos = 0, !.buffer_len = 256,
                       !.state = "WRITE_DATA", !.delay_tstates = 3500 * 10,
                       !.status = @ \cup {FDC_STATUS_DRQ}, !.drqs = @ + 1]

\* case FDC_CMD_READ_ADDRESS
ReadAddressCommand(f) ==
    [f EXCEPT !.sector_buffer =
                 [i \in 0 .. TRD_SECTOR_SIZE - 1 |->
                     CASE i = 0 -> f.track
                       [] i = 1 -> f.current_side
                       [] i = 2 -> f.sector
                       [] i = 3 -> 1
                       [] OTHER -> f.sector_buffer[i]],
              !.buffer_pos = 0, !.buffer_len = 6, !.state = "READ_DATA",
              !.delay_tstates = 3500 * 10,
              !.status = @ \cup {FDC_STATUS_DRQ}, !.drqs = @ + 1]

\* case FDC_CMD_FORCE_INT
ForceIntCommand(f, cmd) ==
    LET g == [f EXCEPT !.status = @ \ {FDC_STATUS_BUSY}, !.state = "IDLE",
                       !.delay_tstates = 0]
    IN  IF cmd % 16 # 0 THEN RaiseIrq(g) ELSE g

\* default: unknown command
UnknownCommand(f) ==
    [f EXCEPT !.status = @ \ {FDC_STATUS_BUSY}, !.state = "IDLE"]

\* fdc_execute_command
fdc_execute_command(f0, cmd) ==
    LET f == [f0 EXCEPT !.command = cmd,
                        !.status = (@ \cup {FDC_STATUS_BUSY})
                                   \ {FDC_STATUS_DRQ, FDC_STATUS_LOST_DATA,
                                      FDC_STATUS_CRC_ERROR, FDC_STATUS_RNF},
                        !.issued = TRUE, !.irqs = 0, !.drqs = 0, !.xfer = 0,
                        !.outs = 0]
        cmd_type == HighNibble(cmd)
    IN  CASE cmd_type \in {FDC_CMD_RESTORE, FDC_CMD_SEEK, FDC_CMD_STEP,
                           FDC_CMD_STEP_IN, FDC_CMD_STEP_OUT} ->
               TypeICommand(f, cmd_type)
          [] cmd_type = FDC_CMD_READ_SECTOR  -> ReadSectorCommand(f)
          [] cmd_type = FDC_CMD_WRITE_SECTOR -> WriteSectorCommand(f)
          [] cmd_type = FDC_CMD_READ_ADDRESS -> ReadAddressCommand(f)
          [] cmd_type = FDC_CMD_FORCE_INT    -> ForceIntCommand(f, cmd)
          [] OTHER -> UnknownCommand(f)

\* a transfer's end that forgets to clear DRQ
TransferCompleteKeepsDrq(f) ==
    RaiseIrq([f EXCEPT !.status = @ \ {FDC_STATUS_BUSY}, !.state = "IDLE"])

\* the end of a transfer in fdc_port_in and fdc_port_out
TransferComplete(f) ==
    RaiseIrq([f EXCEPT !.status = @ \ {FDC_STATUS_DRQ, FDC_STATUS_BUSY},
                       !.state = "IDLE"])

\* a data-port read that ends the transfer one byte early
PortInDataEarly(f) ==
    IF f.state = "READ_DATA" /\ f.buffer_pos < f.buffer_len
    THEN LET g == [f EXCEPT !.data = f.sector_buffer[f.buffer_pos],
                            !.buffer_pos = @ + 1, !.xfer = @ + 1]
         IN  IF g.buffer_pos >= g.buffer_len - 1 THEN TransferComplete(g) ELSE g
    ELSE f

\* fdc_port_in, case FDC_PORT_DATA: the controller after the read
PortInData(f) ==
    IF f.state = "READ_DATA" /\ f.buffer_pos < f.buffer_len
    THEN LET g == [f EXCEPT !.data = f.sector_buffer[f.buffer_pos],
                            !.buffer_pos = @ + 1, !.xfer = @ + 1]
         IN  IF g.buffer_pos >= g.buffer_len THEN TransferComplete(g) ELSE g
    ELSE f

\* the status register as the byte fdc_port_in returns
StatusByte(f) ==
    LET bit(b) == IF b \in f.status THEN b ELSE 0
    IN  bit(1) + bit(2) + bit(4) + bit(8) + bit(16) + bit(64) + bit(128)

\* fdc_port_in: the value returned
PortInValue(f, port_low) ==
    CASE port_low = FDC_PORT_STATUS  -> StatusByte(f)
      [] port_low = FDC_PORT_TRACK   -> f.track
      [] port_low = FDC_PORT_SECTOR  -> f.sector
      [] port_low = FDC_PORT_DATA    -> PortInData(f).data
      [] port_low = FDC_PORT_CONTROL -> f.control
      [] OTHER -> 255

\* a data-port write that commits without converting the 1-based sector
\* register
PortOutDataNoConvert(f, imgs, val) ==
    IF f.state = "WRITE_DATA" /\ f.buffer_pos < f.buffer_len
    THEN LET g == [f EXCEPT !.sector_buffer[f.buffer_pos] = val,
                            !.buffer_pos = @ + 1, !.xfer = @ + 1]
             id == fdc_get_current_drive(g)
         IN  IF g.buffer_pos >= g.buffer_len
             THEN <<TransferComplete(g),
                    IF id # NULL /\ ~imgs[id].read_only
                    THEN [imgs EXCEPT ![id] =
                            trd_write_sector(imgs[id], g.track, g.current_side,
                                             g.sector, g.sector_buffer)[2]]
                    ELSE imgs>>
             ELSE <<g, imgs>>
    ELSE <<[f EXCEPT !.data = val, !.outs = 1], imgs>>

\* fdc_port_out, case FDC_PORT_DATA: <<controller, images>> after the write
PortOutData(f, imgs, val) ==
    IF f.state = "WRITE_DATA" /\ f.buffer_pos < f.buffer_len
    THEN LET g == [f EXCEPT !.sector_buffer[f.buffer_pos] = val,
                            !.buffer_pos = @ + 1, !.xfer = @ + 1]
             id == fdc_get_current_drive(g)
             sector_num == IF g.sector > 0 THEN g.sector - 1 ELSE 0
         IN  IF g.buffer_pos >= g.buffer_len
             THEN <<TransferComplete(g),
                    IF id # NULL /\ ~imgs[id].read_only
                    THEN [imgs EXCEPT ![id] =
                            trd_write_sector(imgs[id], g.track, g.current_side,
                                             sector_num, g.sector_buffer)[2]]
                    ELSE imgs>>
             ELSE <<g, imgs>>
    ELSE <<[f EXCEPT !.data = val, !.outs = 1], imgs>>

\* fdc_port_out, case FDC_PORT_CONTROL
PortOutControl(f, val) ==
    LET drive == val % (FDC_CONTROL_DRIVE_MASK + 1)
    IN  [f EXCEPT !.control = val, !.current_drive = drive,
                  !.current_side = IF BitSet(val, FDC_CONTROL_SIDE) THEN 1 ELSE 0,
                  !.status = IF f.drives[drive] # NULL
                             THEN @ \ {FDC_STATUS_NOT_READY}
                             ELSE @ \cup {FDC_STATUS_NOT_READY}]

\* fdc_step without the countdown: a step shorter than the delay is lost
fdc_step_no_countdown(f, tstates) ==
    IF f.delay_tstates > 0 /\ tstates >= f.delay_tstates
    THEN LET g == [f EXCEPT !.delay_tstates = 0]
         IN  IF g.state = "BUSY"
             THEN RaiseIrq([g EXCEPT !.status = @ \ {FDC_STATUS_BUSY},
                                     !.state = "IDLE"])
             ELSE g
    ELSE f

\* fdc_step
fdc_step(f, tstates) ==
    IF f.delay_tstates > 0
    THEN IF tstates >= f.delay_tstates
         THEN LET g == [f EXCEPT !.delay_tstates = 0]
              IN  IF g.state = "BUSY"
                  THEN RaiseIrq([g EXCEPT !.status = @ \ {FDC_STATUS_BUSY},
                                          !.state = "IDLE"])
                  ELSE g
         ELSE [f EXCEPT !.delay_tstates = @ - tstates]
    ELSE f

\* fdc_reset
fdc_reset(f) ==
    [f EXCEPT !.status = {FDC_STATUS_NOT_READY}, !.track = 0, !.sector = 1,
              !.data = 0, !.command = 0, !.state = "IDLE", !.delay_tstates = 0,
              !.buffer_pos = 0, !.buffer_len = 0,
              !.issued = FALSE, !.irqs = 0, !.drqs = 0, !.xfer = 0, !.outs = 0]

\* fdc_attach_image
fdc_attach_image(f, drive, id) ==
    IF drive < 0 \/ drive >= 4 THEN f
    ELSE [f EXCEPT !.drives[drive] = id,
                   !.status = IF id # NULL THEN @ \ {FDC_STATUS_NOT_READY} ELSE @]

\* fdc_detach_image
fdc_detach_image(f, drive) ==
    IF drive < 0 \/ drive >= 4 THEN f
    ELSE LET g == [f EXCEPT !.drives[drive] = NULL]
             any_ready == \E i \in 0 .. 3 : g.drives[i] # NULL
         IN  IF ~any_ready THEN [g EXCEPT !.status = @ \cup {FDC_STATUS_NOT_READY}]
             ELSE g

----------------------------------------------------------------------------
(* The program driving the FDC: the inputs it gives the handlers *)

\* command bytes written to the command port: Restore, Seek (with flags),
\* Step, Step-In, Step-In with update, Step-Out, Read Sector, Write Sector,
\* Read Address, Force Interrupt with a condition
CmdVals == {0, 24, 32, 64, 80, 96, 128, 160, 192, 216}
TrackVals   == {1, 80}
SectorVals  == {2, 17}
DataVals    == {3, 80}
ControlVals == {0, 17, 2}
StepVals    == {LINE_TSTATES, 1000000}
\* main(): <<drive, image>> pairs attached; image 2 is the read-only one
AttachPairs == {<<0, 1>>, <<0, 2>>, <<1, 2>>}

\* no sector written yet
NoCommit == [id |-> NULL, track |-> 0, side |-> 0, sector |-> 0, pat |-> 0]

\* no Seek command issued yet
NoSeek == [on |-> FALSE, d |-> 0, t |-> 0, total |-> 0, after |-> 0]

\* pat is the payload the program sends during a sector write, seek the
\* registers at the last Seek command and the T-states passed to fdc_step
\* since;
\* pat is the payload the program sends during a sector write, last the
\* registers and payload of the last sector write it completed on a writable
\* image at registers that address a sector
EnvInit ==
    [pat |-> 1, line_steps |-> 0, ops |-> 0, last |-> NoCommit, seek |-> NoSeek]

\* one more counted operation
Op(e) == [e EXCEPT !.ops = @ + 1]

\* a sector transfer in progress
Transferring(f) ==
    f.state \in {"READ_DATA", "WRITE_DATA"} /\ f.buffer_pos < f.buffer_len

\* the middle of a 256-byte transfer, which SpecFdc crosses in one run of
\* data-port accesses
Bulk(f) ==
    /\ Transferring(f)
    /\ f.buffer_len = TRD_SECTOR_SIZE
    /\ f.buffer_pos >= EdgeBytes
    /\ f.buffer_pos < TRD_SECTOR_SIZE - 1

\* the registers address a sector of the image in the selected drive
Addressable(f) ==
    /\ fdc_get_current_drive(f) # NULL
    /\ f.track < images[fdc_get_current_drive(f)].tracks
    /\ f.current_side < images[fdc_get_current_drive(f)].sides
    /\ f.sector >= 1
    /\ f.sector <= TRD_SECTORS_PER_TRACK

\* what the program notes when the data-port writes from f to g end a
\* sector write
NoteCommit(e, f, g) ==
    IF /\ f.state = "WRITE_DATA" /\ g.state = "IDLE"
       /\ g.xfer = TRD_SECTOR_SIZE
       /\ Addressable(f)
       /\ ~images[fdc_get_current_drive(f)].read_only
    THEN [e EXCEPT !.last = [id |-> fdc_get_current_drive(f), track |-> f.track,
                             side |-> f.current_side, sector |-> f.sector,
                             pat |-> e.pat]]
    ELSE e

\* n consecutive calls fdc_port_in(FDC_PORT_DATA)
RECURSIVE PortInRun(_, _)
PortInRun(f, n) ==
    IF n = 0 THEN f
    ELSE IF n = 1 THEN PortInData(f)
    ELSE CHOOSE r \in {PortInRun(g, n - (n \div 2)) :
                          g \in {PortInRun(f, n \div 2)}} : TRUE

\* n consecutive calls fdc_port_out(FDC_PORT_DATA, next byte of payload p)
RECURSIVE PortOutRun(_, _, _, _)
PortOutRun(f, imgs, p, n) ==
    IF n = 0 THEN <<f, imgs>>
    ELSE IF n = 1 THEN PortOutData(f, imgs, PatByte(p, f.buffer_pos))
    ELSE CHOOSE r \in {PortOutRun(h[1], h[2], p, n - (n \div 2)) :
                          h \in {PortOutRun(f, imgs, p, n \div 2)}} : TRUE

\* fdc_port_out(FDC_PORT_STATUS, cmd): the program picks the payload it will
\* write when it starts a Write Sector
FdcCommand(cmd) ==
    /\ env.ops < MaxOps
    /\ HighNibble(cmd) \in {FDC_CMD_STEP_IN, FDC_CMD_STEP_OUT} =>
          (fdc.track <= MaxStepTrack \/ fdc.track >= 78)
    /\ fdc' = fdc_execute_command(fdc, cmd)
    /\ \E p \in Patterns :
          /\ (HighNibble(cmd) # FDC_CMD_WRITE_SECTOR => p = env.pat)
          /\ env' = [env EXCEPT !.pat = p, !.line_steps = 0, !.ops = @ + 1]
    /\ UNCHANGED <<images, tape, mach, obs>>

\* fdc_port_out(FDC_PORT_TRACK, val)
FdcOutTrack(val) ==
    /\ env.ops < MaxOps
    /\ fdc' = [fdc EXCEPT !.track = val]
    /\ env' = Op(env)
    /\ UNCHANGED <<images, tape, mach, obs>>

\* fdc_port_out(FDC_PORT_SECTOR, val)
FdcOutSector(val) ==
    /\ env.ops < MaxOps
    /\ fdc' = [fdc EXCEPT !.sector = val]
    /\ env' = Op(env)
    /\ UNCHANGED <<images, tape, mach, obs>>

\* fdc_port_out(FDC_PORT_DATA, val): during a sector write the program sends
\* the next byte of its payload, otherwise it loads the data register
FdcOutData(val) ==
    /\ IF fdc.state = "WRITE_DATA" /\ fdc.buffer_pos < fdc.buffer_len
       THEN val = PatByte(env.pat, fdc.buffer_pos)
       ELSE val \in DataVals
    /\ fdc' = PortOutData(fdc, images, val)[1]
    /\ images' = PortOutData(fdc, images, val)[2]
    /\ env' = NoteCommit(env, fdc, fdc')
    /\ UNCHANGED <<tape, mach, obs>>

\* the data-port writes that take a sector write from byte EdgeBytes to its
\* last byte, nothing else touching the FDC in between
FdcOutDataRun ==
    /\ fdc.state = "WRITE_DATA" /\ Bulk(fdc) /\ fdc.buffer_pos = EdgeBytes
    /\ LET r == PortOutRun(fdc, images, env.pat,
                           TRD_SECTOR_SIZE - 1 - fdc.buffer_pos)
       IN  fdc' = r[1] /\ images' = r[2]
    /\ env' = env
    /\ UNCHANGED <<tape, mach, obs>>

\* fdc_port_out(FDC_PORT_CONTROL, val)
FdcOutControl(val) ==
    /\ env.ops < MaxOps
    /\ fdc' = PortOutControl(fdc, val)
    /\ env' = Op(env)
    /\ UNCHANGED <<images, tape, mach, obs>>

\* fdc_port_in(FDC_PORT_DATA)
FdcInData ==
    /\ fdc' = PortInData(fdc)
    /\ env' = env
    /\ UNCHANGED <<images, tape, mach, obs>>

\* the data-port reads that take a sector read from byte EdgeBytes to its
\* last byte, nothing else touching the FDC in between
FdcInDataRun ==
    /\ fdc.state = "READ_DATA" /\ Bulk(fdc) /\ fdc.buffer_pos = EdgeBytes
    /\ fdc' = PortInRun(fdc, TRD_SECTOR_SIZE - 1 - fdc.buffer_pos)
    /\ env' = env
    /\ UNCHANGED <<images, tape, mach, obs>>

\* fdc_step(tstates)
FdcStep(tstates) ==
    /\ tstates = LINE_TSTATES => env.line_steps < MaxLineSteps
    /\ fdc' = fdc_step(fdc, tstates)
    /\ env' = [env EXCEPT !.line_steps = IF tstates = LINE_TSTATES THEN @ + 1 ELSE @]
    /\ UNCHANGED <<images, tape, mach, obs>>

\* fdc_reset
FdcReset ==
    /\ env.ops < MaxOps
    /\ fdc' = fdc_reset(fdc)
    /\ env' = Op(env)
    /\ UNCHANGED <<images, tape, mach, obs>>

\* fdc_attach_image(drive, img)
FdcAttach(drive, id) ==
    /\ env.ops < MaxOps
    /\ fdc' = fdc_attach_image(fdc, drive, id)
    /\ env' = Op(env)
    /\ UNCHANGED <<images, tape, mach, obs>>

\* fdc_detach_image(drive)
FdcDetach(drive) ==
    /\ env.ops < MaxOps
    /\ fdc' = fdc_detach_image(fdc, drive)
    /\ env' = Op(env)
    /\ UNCHANGED <<images, tape, mach, obs>>

----------------------------------------------------------------------------
(* The tape engine, the machine and the record of edges before a tape is
   loaded *)

\* tape_t before any file is loaded: static tape = {0}.  The file is kept
\* by its index in TapFiles or TzxFiles, file_pos as the number of blocks
\* read, blk and pulse_seq as sequences.
tape_zero ==
    [fmt |-> "NONE", f |-> FALSE, file |-> 0, file_pos |-> 0,
     phase |-> "IDLE", pulses_left |-> 0, halfwave_ts |-> 0,
     next_edge_cycle |-> 0, level |-> FALSE,
     blk |-> << >>, data_pos |-> 0, cur_byte |-> 0, cur_bit |-> 0,
     pulse_of_bit |-> 0,
     t_pilot |-> 0, t_sync1 |-> 0, t_sync2 |-> 0, t_bit0 |-> 0, t_bit1 |-> 0,
     pilot_pulses |-> 0, used_bits_last |-> 0, pause_ms |-> 0,
     pulse_seq |-> << >>, pulse_seq_n |-> 0, pulse_seq_i |-> 0,
     dr_tstates_per_sample |-> 0, dr_total_bits |-> 0, dr_bit_index |-> 0,
     speed |-> 0, playing |-> FALSE,
     initial_level_known |-> FALSE, initial_level |-> FALSE,
     loop_pos |-> 0, loop_remaining |-> 0, loop_active |-> FALSE,
     group_depth |-> 0, oob |-> FALSE]

\* the record of a block that has just started at time now
ObsStart(block, now) ==
    [block |-> block, last |-> now, pilot_n |-> 0, pilot_hw |-> {},
     sync1 |-> 0, sync2 |-> 0, data |-> << >>, toggles |-> 0,
     data_done |-> FALSE, pos |-> 0, wave |-> << >>, done |-> << >>]

\* the machine before the first scanline: cpu.cycles and global_cycles are 0
mach_init ==
    [global_cycles |-> 0, cycles |-> 0, target |-> 0, lines |-> 0,
     polled |-> FALSE, presses |-> 0, stopped |-> 0, line_runs |-> 0,
     in_valid |-> FALSE, in_c |-> 0, in_bit6 |-> FALSE, in_ideal |-> FALSE]

FdcInit ==
    /\ fdc = fdc_init
    /\ images = InitImages
    /\ env = EnvInit
    /\ tape = tape_zero
    /\ mach = mach_init
    /\ obs = ObsStart(1, 0)

FdcNext ==
    \/ \E cmd \in CmdVals : FdcCommand(cmd)
    \/ \E val \in TrackVals : FdcOutTrack(val)
    \/ \E val \in SectorVals : FdcOutSector(val)
    \/ \E val \in 0 .. 255 : ~Bulk(fdc) /\ FdcOutData(val)
    \/ FdcOutDataRun
    \/ \E val \in ControlVals : FdcOutControl(val)
    \/ ~Bulk(fdc) /\ FdcInData
    \/ FdcInDataRun
    \/ \E tstates \in StepVals : FdcStep(tstates)
    \/ FdcReset
    \/ \E pr \in AttachPairs : FdcAttach(pr[1], pr[2])
    \/ \E drive \in {0, 1} : FdcDetach(drive)

\* the FDC under every sequence of calls of its interface
SpecFdc == FdcInit /\ [][FdcNext]_vars

----------------------------------------------------------------------------
(* Properties of the FDC under SpecFdc *)

\* C5: in every reachable FDC state the DRQ status bit is set if and only
\* if the state is ReadData or WriteData and buffer_pos < buffer_len.
C5_DrqIffTransferring ==
    (FDC_STATUS_DRQ \in fdc.status) <=> Transferring(fdc)

\* a sector transfer that has moved some bytes and still requests data
C5_Witness ==
    /\ FDC_STATUS_DRQ \in fdc.status
    /\ fdc.buffer_len = TRD_SECTOR_SIZE
    /\ fdc.xfer = TRD_SECTOR_SIZE - 1

\* C6: in every reachable FDC state BUSY is set whenever delay_tstates > 0
\* or the state is ReadData or WriteData.
C6_BusyWhileDelayOrTransfer ==
    (fdc.delay_tstates > 0 \/ fdc.state \in {"READ_DATA", "WRITE_DATA"})
        => FDC_STATUS_BUSY \in fdc.status

\* C7: after a command byte 0x00..0x7F has been written, BUSY is set
\* while its delay has not been given to fdc_step, and once it has, BUSY is
\* clear, the state is Idle and IRQ has been raised exactly once.
C7_TypeICompletes ==
    (fdc.issued /\ fdc.command < 128) =>
        /\ fdc.delay_tstates > 0 =>
              (FDC_STATUS_BUSY \in fdc.status /\ fdc.irqs = 0)
        /\ fdc.delay_tstates = 0 =>
              /\ FDC_STATUS_BUSY \notin fdc.status
              /\ fdc.state = "IDLE"
              /\ fdc.irqs = 1

\* the step that writes command byte cmd to the command port
IsCommandStep(cmd) ==
    /\ env'.ops = env.ops + 1
    /\ fdc' = fdc_execute_command(fdc, cmd)

\* the selected drive holds a read-only image
ReadOnlySelected(f) ==
    /\ fdc_get_current_drive(f) # NULL
    /\ images[fdc_get_current_drive(f)].read_only

\* C10, the command: a Write Sector written while the selected image is
\* read-only sets WRITE_PROTECT, clears BUSY and DRQ, leaves the FDC Idle and
\* the images as they are.
C10_Command ==
    \A cmd \in CmdVals :
        (HighNibble(cmd) = FDC_CMD_WRITE_SECTOR /\ ReadOnlySelected(fdc)
            /\ IsCommandStep(cmd)) =>
        /\ FDC_STATUS_WRITE_PROT \in fdc'.status
        /\ FDC_STATUS_BUSY \notin fdc'.status
        /\ FDC_STATUS_DRQ \notin fdc'.status
        /\ fdc'.state = "IDLE"
        /\ images' = images

\* the last command was a Write Sector that was refused for write protection
WriteRefused(f) ==
    /\ f.issued
    /\ HighNibble(f.command) = FDC_CMD_WRITE_SECTOR
    /\ f.drqs = 0
    /\ FDC_STATUS_RNF \notin f.status

\* C10, afterwards: whatever byte is written to the data port after the
\* refusal, no image changes and no byte is transferred; and a read-only
\* image keeps its contents and its modified flag throughout.
C10_Afterwards ==
    /\ WriteRefused(fdc) =>
          /\ fdc.xfer = 0
          /\ FDC_STATUS_WRITE_PROT \in fdc.status
          /\ \A val \in 0 .. 255 :
                /\ PortOutData(fdc, images, val)[2] = images
                /\ PortOutData(fdc, images, val)[1].state = "IDLE"
    /\ \A id \in ImageIds :
          images[id].read_only => images[id] = InitImages[id]

\* C10: a Write Sector addressed to a read-only image sets WRITE_PROTECT,
\* clears BUSY and leaves the FDC Idle with DRQ clear; the image contents and
\* its modified flag stay unchanged whatever is afterwards written to the
\* data port.
C10_WriteProtect == [][C10_Command]_vars /\ []C10_Afterwards

\* a refused Write Sector after which the data port has been written
C10_Witness ==
    /\ WriteRefused(fdc)
    /\ ReadOnlySelected(fdc)
    /\ fdc.outs = 1
    /\ fdc.data \in DataVals

\* the data-transfer commands: Read Sector, Write Sector and Read Address
DataTransferCmd(cmd) ==
    HighNibble(cmd) \in {FDC_CMD_READ_SECTOR, FDC_CMD_WRITE_SECTOR,
                         FDC_CMD_READ_ADDRESS}

\* the command was refused for want of a disk: RECORD_NOT_FOUND, not busy,
\* Idle, DRQ clear and no transfer under way
RefusedNoDisk(f) ==
    /\ FDC_STATUS_RNF \in f.status
    /\ FDC_STATUS_BUSY \notin f.status
    /\ FDC_STATUS_DRQ \notin f.status
    /\ f.state = "IDLE"
    /\ ~Transferring(f)

C11_Command ==
    \A cmd \in CmdVals :
        (DataTransferCmd(cmd) /\ fdc_get_current_drive(fdc) = NULL
            /\ IsCommandStep(cmd))
        => RefusedNoDisk(fdc')

\* C11: a Read Sector, Write Sector or Read Address command issued while
\* the selected drive has no image sets RECORD_NOT_FOUND, clears BUSY,
\* leaves the FDC Idle with DRQ clear and transfers no data.
C11_NoImage == [][C11_Command]_vars

\* the data-port write that ends a 256-byte sector write
CommitStep ==
    /\ fdc.state = "WRITE_DATA"
    /\ fdc'.state = "IDLE"
    /\ fdc'.xfer = TRD_SECTOR_SIZE

\* the sector written was stored in the image: trd_write_sector returned
\* true
Stored ==
    /\ fdc_get_current_drive(fdc) # NULL
    /\ ~images[fdc_get_current_drive(fdc)].read_only
    /\ trd_get_offset(images[fdc_get_current_drive(fdc)], fdc.track,
                      fdc.current_side,
                      IF fdc.sector > 0 THEN fdc.sector - 1 ELSE 0) >= 0

\* the selected drive holds a writable image
WritableSelected(f) ==
    /\ fdc_get_current_drive(f) # NULL
    /\ ~images[fdc_get_current_drive(f)].read_only

ErrorBits ==
    {FDC_STATUS_CRC_ERROR, FDC_STATUS_RNF, FDC_STATUS_WRITE_PROT,
     FDC_STATUS_LOST_DATA}

C12_Commit ==
    CommitStep =>
        /\ (WritableSelected(fdc) /\ ~Stored) =>
              (FDC_STATUS_CRC_ERROR \in fdc'.status /\ fdc'.state = "IDLE")
        /\ ~Stored => fdc'.status \cap ErrorBits # {}

\* C12: when committing a written sector to a writable image fails (the
\* track or sector register addresses a sector outside the image), the FDC
\* sets CRC_ERROR and returns to Idle; a write never completes without an
\* error bit when nothing was stored.
C12_CommitFailure == [][C12_Commit]_vars

----------------------------------------------------------------------------
(* Sector transfers byte by byte: the image of the command line is in      *)
(* drive 0, and the program reads and writes whole sectors through the     *)
(* data port, writing registers and commands between transfers only.       *)

XferCmdVals == {FDC_CMD_READ_SECTOR, FDC_CMD_WRITE_SECTOR}

\* main(): fdc_init, then the first disk image of the command line is
\* attached to drive 0
XferInit ==
    /\ fdc = fdc_attach_image(fdc_init, 0, 1)
    /\ images = InitImages
    /\ env = EnvInit
    /\ tape = tape_zero
    /\ mach = mach_init
    /\ obs = ObsStart(1, 0)

XferNext ==
    \/ \E cmd \in XferCmdVals : ~Transferring(fdc) /\ FdcCommand(cmd)
    \/ \E val \in SectorVals : ~Transferring(fdc) /\ FdcOutSector(val)
    \/ \E val \in ControlVals : ~Transferring(fdc) /\ FdcOutControl(val)
    \/ \E val \in 0 .. 255 : FdcOutData(val)
    \/ FdcInData
    \/ FdcStep(1000000)

SpecFdcXfer == XferInit /\ [][XferNext]_vars

\* the last command was a Read Sector or Write Sector that was accepted
SectorCommandAccepted(f) ==
    /\ f.issued
    /\ HighNibble(f.command) \in XferCmdVals
    /\ f.drqs = 1

\* C8: after a Read Sector or Write Sector command is accepted, DRQ stays
\* set until exactly 256 bytes have gone through the data port; with the
\* 256th, DRQ and BUSY are clear, the state is Idle and IRQ has been raised
\* exactly once; a further data-port access transfers no byte.
C8_SectorTransfer ==
    SectorCommandAccepted(fdc) =>
        /\ fdc.xfer <= TRD_SECTOR_SIZE
        /\ fdc.xfer < TRD_SECTOR_SIZE =>
              /\ FDC_STATUS_DRQ \in fdc.status
              /\ FDC_STATUS_BUSY \in fdc.status
              /\ fdc.state \in {"READ_DATA", "WRITE_DATA"}
              /\ fdc.irqs = 0
        /\ fdc.xfer = TRD_SECTOR_SIZE =>
              /\ FDC_STATUS_DRQ \notin fdc.status
              /\ FDC_STATUS_BUSY \notin fdc.status
              /\ fdc.state = "IDLE"
              /\ fdc.irqs = 1
              /\ PortInData(fdc) = fdc
              /\ \A val \in DataVals :
                    /\ PortOutData(fdc, images, val)[1].xfer = TRD_SECTOR_SIZE
                    /\ PortOutData(fdc, images, val)[2] = images

\* a completed sector read after which the data port has been written again
C8_Witness ==
    /\ SectorCommandAccepted(fdc)
    /\ HighNibble(fdc.command) = FDC_CMD_READ_SECTOR
    /\ fdc.xfer = TRD_SECTOR_SIZE
    /\ fdc.outs = 1

\* the 256-byte unit of the image file the registers address
UnitOf(f) ==
    trd_get_offset(images[fdc_get_current_drive(f)], f.track, f.current_side,
                   f.sector - 1) \div TRD_SECTOR_SIZE

\* unit v of image id holds the same bytes before and after the step
UnitUnchanged(id, v) ==
    IF v \notin DOMAIN images[id].written /\ v \notin DOMAIN images'[id].written
    THEN TRUE
    ELSE FileSector(id, images'[id], v * TRD_SECTOR_SIZE)
            = FileSector(id, images[id], v * TRD_SECTOR_SIZE)

\* C9, the commit: the 256th data-port write of a Write Sector on a writable
\* image stores the bytes written, in order, in the sector addressed by
\* (track register, selected side, sector register - 1) and changes no other
\* sector of any image.
C9_Commit ==
    (/\ fdc.state = "WRITE_DATA"
     /\ fdc.xfer = TRD_SECTOR_SIZE - 1
     /\ fdc'.xfer = TRD_SECTOR_SIZE
     /\ Addressable(fdc)
     /\ ~images[fdc_get_current_drive(fdc)].read_only) =>
        /\ FileSector(fdc_get_current_drive(fdc),
                      images'[fdc_get_current_drive(fdc)],
                      UnitOf(fdc) * TRD_SECTOR_SIZE) = PatSector(env.pat)
        /\ images'[fdc_get_current_drive(fdc)].size
              = images[fdc_get_current_drive(fdc)].size
        /\ \A id \in ImageIds :
              \A v \in 0 .. (images[id].size \div TRD_SECTOR_SIZE) - 1 :
                 (id # fdc_get_current_drive(fdc) \/ v # UnitOf(fdc))
                    => UnitUnchanged(id, v)

\* the registers are those of the last sector write the program completed
SameRegisters(f, c) ==
    /\ c # NoCommit
    /\ fdc_get_current_drive(f) = c.id
    /\ f.track = c.track
    /\ f.current_side = c.side
    /\ f.sector = c.sector

\* C9, the read back: every byte a Read Sector with the registers of the
\* last completed write streams through the data port is the byte that was
\* written at the same position.
C9_ReadBack ==
    (/\ fdc.state = "READ_DATA"
     /\ HighNibble(fdc.command) = FDC_CMD_READ_SECTOR
     /\ fdc'.xfer = fdc.xfer + 1
     /\ SameRegisters(fdc, env.last)) =>
        fdc'.data = PatByte(env.last.pat, fdc.xfer)

\* C9: on a writable image, a Write Sector followed by 256 data-port writes
\* commits those bytes to the sector addressed by (track register, selected
\* side, sector register - 1); a later Read Sector with the same registers
\* streams back the same 256 bytes in the same order, and every other sector
\* of the image is unchanged.
C9_WriteThenRead == [][C9_Commit /\ C9_ReadBack]_vars

\* a sector read back in full after the second payload was written to it
C9_Witness ==
    /\ SectorCommandAccepted(fdc)
    /\ HighNibble(fdc.command) = FDC_CMD_READ_SECTOR
    /\ fdc.xfer = TRD_SECTOR_SIZE
    /\ SameRegisters(fdc, env.last)
    /\ env.last.pat = 2
    /\ fdc.sector_buffer = PatSector(2)


----------------------------------------------------------------------------
(* An SCL archive mounted in drive 0: main() attaches the image that       *)
(* scl_open converted, and the program drives the ports as above.          *)

\* scl_open's result: the converted file is opened with
\* trd_open(temp_filename, false), and only the wrapper is marked read-only
scl_open_mounted ==
    [trd |-> [read_only |-> FALSE, modified |-> FALSE, tracks |-> 80,
              sides |-> 2, size |-> 655360, written |-> [v \in {} |-> 0]],
     read_only |-> TRUE]

\* scl_get_trd
scl_get_trd(s) == s.trd

\* the image id of the converted archive in SpecSclMount
SclId == 1

SclMountInit ==
    /\ images = [id \in ImageIds |-> IF id = SclId
                                     THEN scl_get_trd(scl_open_mounted)
                                     ELSE InitImages[id]]
    /\ fdc = fdc_attach_image(fdc_init, 0, SclId)
    /\ env = EnvInit
    /\ tape = tape_zero
    /\ mach = mach_init
    /\ obs = ObsStart(1, 0)

SpecSclMount == SclMountInit /\ [][XferNext]_vars

C15_Command ==
    \A cmd \in CmdVals :
        (HighNibble(cmd) = FDC_CMD_WRITE_SECTOR
            /\ fdc_get_current_drive(fdc) = SclId /\ IsCommandStep(cmd)) =>
        /\ FDC_STATUS_WRITE_PROT \in fdc'.status
        /\ FDC_STATUS_BUSY \notin fdc'.status
        /\ fdc'.state = "IDLE"

\* C15: an image mounted from an SCL archive is read-only to the FDC: a
\* Write Sector command on its drive is rejected with WRITE_PROTECT, and no
\* port operation changes the converted image.
C15_SclReadOnly ==
    [][C15_Command /\ images'[SclId] = images[SclId]]_vars

----------------------------------------------------------------------------
(* Tape engine (src/minzx.c): tape files and the tape_t state *)

\* TAP timings and the clock
TS_PILOT == 2168
TS_SYNC1 == 667
TS_SYNC2 == 735
TS_BIT0  == 855
TS_BIT1  == 1710
CYCLES_PER_FRAME == 69888

\* MS_TO_TSTATES
MS_TO_TSTATES(ms) == ms * 3500

\* the uint32_t (dlen-1)*8 of a direct recording of no bytes wraps to more
\* samples than any run plays
WrappedBits == 2147483647

\* a TAP file: its blocks, each the bytes after the two length bytes
TapFiles ==
    << << <<0, 165>>, <<255>> >>,
       << <<255, 60>> >>,
       << <<0>>, << >>, <<255>> >> >>

\* TZX blocks as tzx_read_and_prepare_next_block reads them
Std(pause, data) == [id |-> 16, pause |-> pause, data |-> data]
Turbo(pilot, sync1, sync2, bit0, bit1, pulses, used, pause, data) ==
    [id |-> 17, t_pilot |-> pilot, t_sync1 |-> sync1, t_sync2 |-> sync2,
     t_bit0 |-> bit0, t_bit1 |-> bit1, pilot_pulses |-> pulses, used |-> used,
     pause |-> pause, data |-> data]
Tone(len, pulses) == [id |-> 18, tone_len |-> len, tone_pulses |-> pulses]
Pulses(seq) == [id |-> 19, seq |-> seq]
PureData(bit0, bit1, used, pause, data) ==
    [id |-> 20, t_bit0 |-> bit0, t_bit1 |-> bit1, used |-> used,
     pause |-> pause, data |-> data]
DirectRec(ts, pause, used, data) ==
    [id |-> 21, ts |-> ts, pause |-> pause, used |-> used, data |-> data]
Pause(ms) == [id |-> 32, ms |-> ms]
GroupStart == [id |-> 33]
GroupEnd == [id |-> 34]
LoopStart(count) == [id |-> 36, count |-> count]
LoopEnd == [id |-> 37]
StopIf48K == [id |-> 42]
SetLevel(lvl) == [id |-> 43, lvl |-> lvl]
TextBlock == [id |-> 48]
\* a Generalized Data block 0x19: the pilot/sync symbol table psyms with its
\* run-length list prle of <<symbol, repetitions>>, and the data symbol
\* table dsyms with totd symbols packed in the bytes of data
GenData(pause, psyms, prle, dsyms, totd, data) ==
    [id |-> 25, pause |-> pause, psyms |-> psyms, prle |-> prle,
     dsyms |-> dsyms, totd |-> totd, data |-> data]
Unsupported == [id |-> 153]

\* TZX files: the blocks after the 10-byte header
TzxFiles ==
    << << Std(100, <<255, 60>>), Tone(1000, 3), Pulses(<<500, 0, 700>>),
          Pause(2), Std(0, <<0>>), Pause(0), Std(1, <<255>>) >>,
       << GroupStart, SetLevel(0), Turbo(1000, 500, 0, 300, 600, 2, 3, 0, <<90, 195>>),
          GroupEnd, LoopStart(2), Tone(400, 2), Pulses(<<300, 200>>), LoopEnd,
          TextBlock,
          PureData(300, 0, 8, 1, <<165>>), DirectRec(350, 0, 4, <<172, 80>>),
          Turbo(0, 0, 0, 0, 0, 0, 0, 3, << >>), StopIf48K, Tone(1, 1) >>,
       << Pulses(<< >>), Turbo(0, 0, 0, 200, 200, 0, 0, 0, << >>),
          Tone(0, 2), LoopEnd, Unsupported, Tone(1, 1) >>,
       << GenData(0, << [flags |-> 2, pulses |-> <<500, 0>>],
                        [flags |-> 0, pulses |-> <<300, 250>>] >>,
                  << <<0, 1>>, <<1, 2>> >>,
                  << [flags |-> 3, pulses |-> <<200, 0>>],
                     [flags |-> 1, pulses |-> <<100, 150>>],
                     [flags |-> 2, pulses |-> <<120, 0>>] >>,
                  4, <<108>>),
          SetLevel(0),
          GenData(1, << >>, << >>,
                  << [flags |-> 3, pulses |-> <<400, 0>>],
                     [flags |-> 0, pulses |-> <<0, 0>>] >>,
                  3, <<64>>),
          Tone(1, 1) >> >>

\* the blocks of the loaded file, and tape.file_size as a block count
\* (file 0 is a file with nothing in it after the header, if any)
FileBlocks(t) ==
    IF t.file = 0 THEN << >>
    ELSE IF t.fmt = "TAP" THEN TapFiles[t.file]
    ELSE IF t.fmt = "TZX" THEN TzxFiles[t.file] ELSE << >>

blk_len(t) == Len(t.blk)

\* tape.blk[i]; a read outside the block is recorded in tape.oob by the
\* caller
BlkAt(t, i) == IF i < Len(t.blk) THEN t.blk[i + 1] ELSE 0

\* bit k of a byte
BitOf(byte, k) == (byte \div (2 ^ k)) % 2 = 1

\* the two bit timings exchanged
halfwave_swapped(t, bit1) == IF bit1 THEN t.t_bit0 ELSE t.t_bit1

\* halfwave_for_bit
halfwave_for_bit(t, bit1) == IF bit1 THEN t.t_bit1 ELSE t.t_bit0

\* the TAP speed scaling (uint32_t)(x / tape.speed)
Scaled(t, x) ==
    IF t.fmt = "TAP" /\ t.speed > 0 THEN x \div t.speed ELSE x

\* tap_read_next_block: <<ok, tape>>
tap_read_next_block(t) ==
    IF ~t.f THEN <<FALSE, t>>
    ELSE IF t.file_pos >= Len(FileBlocks(t)) THEN <<FALSE, t>>
    ELSE LET b == FileBlocks(t)[t.file_pos + 1]
         IN  IF Len(b) = 0 THEN <<FALSE, [t EXCEPT !.file_pos = @ + 1]>>
             ELSE <<TRUE,
                    [t EXCEPT !.file_pos = @ + 1, !.blk = b,
                              !.t_pilot = 2168, !.t_sync1 = 667,
                              !.t_sync2 = 735, !.t_bit0 = 855, !.t_bit1 = 1710,
                              !.used_bits_last = 8,
                              !.pilot_pulses = IF b[1] = 0 THEN 8063 ELSE 3223,
                              !.pause_ms = 1000]>>

\* start_block_emission
start_block_emission(t, now_cycle) ==
    [t EXCEPT !.phase = "PILOT", !.pulses_left = t.pilot_pulses * 2,
              !.halfwave_ts = Scaled(t, t.t_pilot),
              !.next_edge_cycle = now_cycle + Scaled(t, t.t_pilot),
              !.level = IF t.initial_level_known THEN t.initial_level ELSE TRUE,
              !.data_pos = 0, !.cur_bit = 7, !.pulse_of_bit = 0]

\* start_pause (pause_ms is at most 65535 ms, so that the uint32_t pause_ts
\* holds the product)
start_pause(t, now_cycle) ==
    [t EXCEPT !.phase = "PAUSE",
              !.next_edge_cycle = now_cycle + MS_TO_TSTATES(t.pause_ms),
              !.level = TRUE]

\* the first byte of a block enters the Data phase: PH_SYNC2 of both
\* engines, and the Data entries of the TZX engine (from is the time the
\* half-wave starts)
EnterData(t, from) ==
    LET byte == IF blk_len(t) > 0 THEN BlkAt(t, 0) ELSE 0
        hw == Scaled(t, halfwave_for_bit(t, BitOf(byte, 7)))
    IN  [t EXCEPT !.phase = "DATA", !.data_pos = IF blk_len(t) > 0 THEN 1 ELSE 0,
                  !.cur_bit = 7, !.pulse_of_bit = 0, !.cur_byte = byte,
                  !.halfwave_ts = hw, !.next_edge_cycle = from + hw]

\* one iteration of the while loop of tap_ear_level_until
TapEdge(t0, now_cycle) ==
    LET t == [t0 EXCEPT !.level = ~t0.level]
    IN  CASE t.phase = "PILOT" ->
               IF t.pulses_left - 1 > 0
               THEN [t EXCEPT !.pulses_left = @ - 1,
                              !.next_edge_cycle = @ + t.halfwave_ts]
               ELSE [t EXCEPT !.pulses_left = @ - 1, !.phase = "SYNC1",
                              !.halfwave_ts = Scaled(t, t.t_sync1),
                              !.next_edge_cycle = @ + Scaled(t, t.t_sync1)]
          [] t.phase = "SYNC1" ->
               [t EXCEPT !.phase = "SYNC2",
                         !.halfwave_ts = Scaled(t, t.t_sync2),
                         !.next_edge_cycle = @ + Scaled(t, t.t_sync2)]
          [] t.phase = "SYNC2" -> EnterData(t, t.next_edge_cycle)
          [] t.phase = "DATA" ->
               IF t.pulse_of_bit = 0
               THEN [t EXCEPT !.pulse_of_bit = 1,
                              !.next_edge_cycle = @ + t.halfwave_ts]
               ELSE IF t.cur_bit - 1 < 0 /\ t.data_pos >= blk_len(t)
               THEN start_pause([t EXCEPT !.pulse_of_bit = 0, !.cur_bit = @ - 1],
                                now_cycle)
               ELSE LET u == IF t.cur_bit - 1 < 0
                             THEN [t EXCEPT !.pulse_of_bit = 0, !.cur_bit = 7,
                                            !.cur_byte = BlkAt(t, t.data_pos),
                                            !.data_pos = @ + 1]
                             ELSE [t EXCEPT !.pulse_of_bit = 0, !.cur_bit = @ - 1]
                        hw == Scaled(u, halfwave_for_bit(u, BitOf(u.cur_byte,
                                                                  u.cur_bit)))
                    IN  [u EXCEPT !.halfwave_ts = hw,
                                  !.next_edge_cycle = @ + hw]
          [] t.phase = "PAUSE" ->
               LET r == tap_read_next_block(t)
               IN  IF ~r[1]
                   THEN [r[2] EXCEPT !.phase = "IDLE", !.playing = FALSE,
                                     !.level = TRUE]
                   ELSE start_block_emission(r[2], now_cycle)
          [] OTHER -> t

\* the level a block starts with
BaseLevel(t) == IF t.initial_level_known THEN t.initial_level ELSE TRUE

\* the switch to PH_PAUSE of the TZX engine
TzxPause(t, from) ==
    [t EXCEPT !.phase = "PAUSE",
              !.next_edge_cycle = from + MS_TO_TSTATES(t.pause_ms)]

\* tzx_prepare_standard_or_turbo
tzx_prepare_standard_or_turbo(t0, now) ==
    LET t == [t0 EXCEPT !.level = BaseLevel(t0)]
    IN  IF t.pilot_pulses > 0 /\ t.t_pilot > 0
        THEN [t EXCEPT !.phase = "PILOT", !.pulses_left = t.pilot_pulses * 2,
                       !.halfwave_ts = t.t_pilot,
                       !.next_edge_cycle = now + t.t_pilot]
        ELSE IF t.t_sync1 > 0
        THEN [t EXCEPT !.phase = "SYNC1", !.halfwave_ts = t.t_sync1,
                       !.next_edge_cycle = now + t.t_sync1]
        ELSE IF t.t_bit0 # 0 \/ t.t_bit1 # 0
        THEN EnterData(t, now)
        ELSE TzxPause(t, now)

\* a stop that leaves the level as it is
TzxStopKeepsLevel(t) == [t EXCEPT !.phase = "IDLE", !.playing = FALSE]

\* the stop of 0x20 (pause 0) and 0x2A
TzxStop(t) == [t EXCEPT !.phase = "IDLE", !.playing = FALSE, !.level = TRUE]

\* ceil_log2_u16
ceil_log2_u16(v) ==
    IF v <= 1 THEN 1
    ELSE CHOOSE n \in 1..16 : 2 ^ n >= v /\ 2 ^ (n - 1) < v

\* push_or_merge_halfwave on the output sequence seq
push_or_merge_halfwave(seq, dur, merge) ==
    IF dur = 0 THEN seq
    ELSE IF merge /\ Len(seq) > 0
    THEN [seq EXCEPT ![Len(seq)] = IF @ + dur > 65535 THEN 65535 ELSE @ + dur]
    ELSE Append(seq, dur)

\* the symbols of a 0x19 block in the order they are emitted, each with its
\* flags and the pulses of its definition that are not 0: the run-length
\* list expanded, then the data symbols read NB bits at a time, MSB first
tzx19_symbols(b) ==
    LET ASP == Len(b.psyms)
        ASD == Len(b.dsyms)
        NB == ceil_log2_u16(ASD)
        nonzero(d) == d # 0
        def(S) == [flags |-> S.flags, pulses |-> SelectSeq(S.pulses, nonzero)]
        run(k) == [r \in 1..b.prle[k][2] |->
                      def(b.psyms[(b.prle[k][1] % ASP) + 1])]
        bit(q) == IF BitOf(b.data[(q \div 8) + 1], 7 - (q % 8)) THEN 1 ELSE 0
        RECURSIVE pilot(_), sym(_, _)
        pilot(k) == IF k = 0 THEN << >> ELSE pilot(k - 1) \o run(k)
        sym(k, i) == IF i = 0 THEN 0
                     ELSE (2 * sym(k, i - 1)) + bit((k * NB) + (i - 1))
    IN  pilot(Len(b.prle))
           \o [k \in 1..b.totd |-> def(b.dsyms[(sym(k - 1, NB) % ASD) + 1])]

\* the half-wave sequence case 0x19 builds from the first n symbols
RECURSIVE tzx19_seq(_, _, _)
tzx19_seq(syms, n, init_level) ==
    IF n = 0 THEN << >>
    ELSE
    LET seq == tzx19_seq(syms, n - 1, init_level)
        S == syms[n]
        pol == S.flags % 4
        seq_n == Len(seq)
        current_level == IF seq_n % 2 = 0 THEN init_level ELSE ~init_level
        merge_first ==
            CASE pol = 1 -> seq_n > 0
              [] pol = 2 -> seq_n > 0 /\ current_level = FALSE
              [] pol = 3 -> seq_n > 0 /\ current_level = TRUE
              [] OTHER -> FALSE
        RECURSIVE pulses(_)
        pulses(p) ==
            IF p = 0 THEN seq
            ELSE push_or_merge_halfwave(pulses(p - 1), S.pulses[p],
                                        p = 1 /\ merge_first)
    IN  pulses(Len(S.pulses))

\* a Loop End that never goes back
loop_end_once(t) == [t EXCEPT !.loop_active = FALSE]

\* case 0x25 of tzx_read_and_prepare_next_block, up to the recursive call
loop_end(t) ==
    IF t.loop_active /\ t.loop_remaining > 1
    THEN [t EXCEPT !.loop_remaining = @ - 1, !.file_pos = t.loop_pos]
    ELSE [t EXCEPT !.loop_active = FALSE]

\* tzx_read_and_prepare_next_block: <<ok, tape>>
RECURSIVE tzx_read_and_prepare_next_block(_, _)
tzx_read_and_prepare_next_block(t0, now) ==
    IF t0.file_pos >= Len(FileBlocks(t0)) THEN <<FALSE, t0>>
    ELSE
    LET b == FileBlocks(t0)[t0.file_pos + 1]
        t == [t0 EXCEPT !.file_pos = @ + 1]
    IN  CASE b.id = 16 ->
               <<TRUE, tzx_prepare_standard_or_turbo(
                   [t EXCEPT !.pause_ms = b.pause, !.blk = b.data,
                             !.t_pilot = 2168, !.t_sync1 = 667, !.t_sync2 = 735,
                             !.t_bit0 = 855, !.t_bit1 = 1710,
                             !.used_bits_last = 8,
                             !.pilot_pulses =
                                 IF Len(b.data) > 0 /\ b.data[1] = 0
                                 THEN 8063 ELSE 3223], now)>>
          [] b.id = 18 ->
               <<TRUE, [t EXCEPT !.t_pilot = 0, !.t_sync1 = 0, !.t_sync2 = 0,
                                 !.t_bit0 = 0, !.t_bit1 = 0, !.pulse_seq_n = 0,
                                 !.pause_ms = 0, !.halfwave_ts = b.tone_len,
                                 !.pulses_left = b.tone_pulses * 2,
                                 !.phase = "PURE_TONE",
                                 !.next_edge_cycle = now + b.tone_len,
                                 !.level = BaseLevel(t)]>>
          [] b.id = 17 ->
               <<TRUE, tzx_prepare_standard_or_turbo(
                   [t EXCEPT !.t_pilot = b.t_pilot, !.t_sync1 = b.t_sync1,
                             !.t_sync2 = b.t_sync2, !.t_bit0 = b.t_bit0,
                             !.t_bit1 = b.t_bit1,
                             !.pilot_pulses = b.pilot_pulses,
                             !.used_bits_last = IF b.used = 0 THEN 8 ELSE b.used,
                             !.pause_ms = b.pause, !.blk = b.data], now)>>
          [] b.id = 19 ->
               LET hw == IF Len(b.seq) > 0 THEN b.seq[1] ELSE 0
               IN  <<TRUE, [t EXCEPT !.pulse_seq = b.seq,
                                     !.pulse_seq_n = Len(b.seq),
                                     !.pulse_seq_i = 0, !.pause_ms = 0,
                                     !.phase = "PULSE_SEQ", !.halfwave_ts = hw,
                                     !.next_edge_cycle =
                                         now + (IF hw # 0 THEN hw ELSE 1),
                                     !.level = BaseLevel(t)]>>
          [] b.id = 20 ->
               LET u == EnterData(
                            [t EXCEPT !.t_bit0 = b.t_bit0, !.t_bit1 = b.t_bit1,
                                      !.used_bits_last = b.used,
                                      !.pause_ms = b.pause, !.blk = b.data,
                                      !.t_pilot = 0, !.t_sync1 = 0,
                                      !.t_sync2 = 0], now)
               IN  <<TRUE, [u EXCEPT !.level = BaseLevel(t)]>>
          [] b.id = 21 ->
               <<TRUE, [t EXCEPT !.dr_tstates_per_sample = b.ts,
                                 !.pause_ms = b.pause, !.blk = b.data,
                                 !.dr_total_bits =
                                     IF Len(b.data) = 0 THEN WrappedBits
                                     ELSE (Len(b.data) - 1) * 8
                                          + (IF b.used = 0 THEN 8 ELSE b.used),
                                 !.dr_bit_index = 0, !.phase = "DIRECT_REC",
                                 !.level = BaseLevel(t),
                                 !.next_edge_cycle = now + b.ts]>>
          [] b.id = 32 ->
               IF b.ms = 0 THEN <<FALSE, TzxStop(t)>>
               ELSE <<TRUE, [t EXCEPT !.pause_ms = b.ms, !.phase = "PAUSE",
                                      !.next_edge_cycle =
                                          now + MS_TO_TSTATES(b.ms),
                                      !.level = TRUE]>>
          [] b.id = 33 ->
               tzx_read_and_prepare_next_block(
                   [t EXCEPT !.group_depth = 1], now)
          [] b.id = 34 ->
               tzx_read_and_prepare_next_block(
                   [t EXCEPT !.group_depth = 0], now)
          [] b.id = 36 ->
               tzx_read_and_prepare_next_block(
                   [t EXCEPT !.loop_pos = t.file_pos,
                             !.loop_remaining = b.count,
                             !.loop_active = TRUE], now)
          [] b.id = 37 ->
               tzx_read_and_prepare_next_block(loop_end(t), now)
          [] b.id = 42 -> <<FALSE, TzxStop(t)>>
          [] b.id = 43 ->
               tzx_read_and_prepare_next_block(
                   [t EXCEPT !.initial_level_known = TRUE,
                             !.initial_level = (b.lvl # 0)], now)
          [] b.id = 48 -> tzx_read_and_prepare_next_block(t, now)
          [] b.id = 25 ->
               LET init_level == BaseLevel(t)
                   syms == tzx19_symbols(b)
                   seq == tzx19_seq(syms, Len(syms), init_level)
                   hw == IF Len(seq) > 0 THEN seq[1] ELSE 1
               IN  <<TRUE, [t EXCEPT !.pause_ms = b.pause,
                                     !.pulse_seq = seq,
                                     !.pulse_seq_n = Len(seq),
                                     !.pulse_seq_i = 0,
                                     !.phase = "PULSE_SEQ",
                                     !.halfwave_ts = hw,
                                     !.level = init_level,
                                     !.next_edge_cycle = now + hw]>>
          [] OTHER -> <<FALSE, t>>

\* one iteration of the while loop of tzx_ear_level_until
TzxEdge(t0, now_cycle) ==
    LET t == IF t0.phase # "PAUSE" THEN [t0 EXCEPT !.level = ~t0.level] ELSE t0
    IN  CASE t.phase \in {"PILOT", "PURE_TONE"} ->
               IF t.pulses_left - 1 > 0
               THEN [t EXCEPT !.pulses_left = @ - 1,
                              !.next_edge_cycle = @ + t.halfwave_ts]
               ELSE LET u == [t EXCEPT !.pulses_left = @ - 1]
                    IN  IF u.t_sync1 # 0
                        THEN [u EXCEPT !.phase = "SYNC1",
                                       !.halfwave_ts = u.t_sync1,
                                       !.next_edge_cycle = @ + u.t_sync1]
                        ELSE IF u.t_bit0 # 0 \/ u.t_bit1 # 0
                        THEN EnterData(u, u.next_edge_cycle)
                        ELSE TzxPause(u, u.next_edge_cycle)
          [] t.phase = "SYNC1" ->
               IF t.t_sync2 # 0
               THEN [t EXCEPT !.phase = "SYNC2", !.halfwave_ts = t.t_sync2,
                              !.next_edge_cycle = @ + t.t_sync2]
               ELSE EnterData(t, t.next_edge_cycle)
          [] t.phase = "SYNC2" -> EnterData(t, t.next_edge_cycle)
          [] t.phase = "DATA" ->
               IF t.pulse_of_bit = 0
               THEN [t EXCEPT !.pulse_of_bit = 1,
                              !.next_edge_cycle = @ + t.halfwave_ts]
               ELSE IF t.cur_bit - 1 < 0 /\ t.data_pos >= blk_len(t)
               THEN TzxPause([t EXCEPT !.pulse_of_bit = 0, !.cur_bit = @ - 1],
                             t.next_edge_cycle)
               ELSE LET u == IF t.cur_bit - 1 < 0
                             THEN [t EXCEPT !.pulse_of_bit = 0, !.cur_bit = 7,
                                            !.cur_byte = BlkAt(t, t.data_pos),
                                            !.data_pos = @ + 1]
                             ELSE [t EXCEPT !.pulse_of_bit = 0, !.cur_bit = @ - 1]
                        hw == halfwave_for_bit(u, BitOf(u.cur_byte, u.cur_bit))
                    IN  IF /\ u.data_pos = blk_len(u)
                           /\ u.used_bits_last # 0 /\ u.used_bits_last # 8
                           /\ 7 - u.cur_bit >= u.used_bits_last
                        THEN TzxPause(u, u.next_edge_cycle)
                        ELSE [u EXCEPT !.halfwave_ts = hw,
                                       !.next_edge_cycle = @ + hw]
          [] t.phase = "PULSE_SEQ" ->
               IF t.pulse_seq_i < t.pulse_seq_n
               THEN [t EXCEPT !.halfwave_ts = t.pulse_seq[t.pulse_seq_i + 1],
                              !.pulse_seq_i = @ + 1,
                              !.next_edge_cycle =
                                  @ + t.pulse_seq[t.pulse_seq_i + 1]]
               ELSE TzxPause(t, t.next_edge_cycle)
          [] t.phase = "DIRECT_REC" ->
               IF t.dr_bit_index >= t.dr_total_bits
               THEN TzxPause(t, t.next_edge_cycle)
               ELSE LET byte_i == t.dr_bit_index \div 8
                        bit_i == 7 - (t.dr_bit_index % 8)
                        lvl == BitOf(BlkAt(t, byte_i), bit_i)
                    IN  [t EXCEPT !.next_edge_cycle =
                                      @ + t.dr_tstates_per_sample,
                                  !.level = IF lvl # t.level THEN t.level
                                            ELSE ~t.level,
                                  !.dr_bit_index = @ + 1,
                                  !.oob = @ \/ byte_i >= blk_len(t)]
          [] t.phase = "PAUSE" ->
               LET r == tzx_read_and_prepare_next_block(t, now_cycle)
               IN  IF ~r[1] THEN TzxStop(r[2]) ELSE r[2]
          [] OTHER -> t

----------------------------------------------------------------------------
(* The edge loop of both engines, with the record of the edges of the
   current block *)

\* edges one call of an ear_level_until function may have to catch up with
MaxEdges == 256

\* the record after the edge that took the engine from t to u: the
\* half-wave it ends started at o.last and ends at t.next_edge_cycle
Observe(o, t, u, now) ==
    LET hw == t.next_edge_cycle - o.last
        p == [o EXCEPT !.last = t.next_edge_cycle]
    IN  CASE t.phase = "PILOT" ->
               [p EXCEPT !.pilot_n = @ + 1, !.pilot_hw = @ \cup {hw}]
          [] t.phase = "SYNC1" -> [p EXCEPT !.sync1 = hw]
          [] t.phase = "SYNC2" -> [p EXCEPT !.sync2 = hw]
          [] t.phase = "DATA" ->
               [p EXCEPT !.data = Append(@, hw),
                         !.toggles = @ + (IF u.level # t.level THEN 1 ELSE 0),
                         !.data_done = (u.phase = "PAUSE")]
          [] t.phase \in {"PURE_TONE", "PULSE_SEQ", "DIRECT_REC"} ->
               [p EXCEPT !.wave = Append(@, [hw |-> hw, level |-> u.level,
                                             toggled |-> u.level # t.level,
                                             ended |-> u.phase = "PAUSE"])]
          [] t.phase = "PAUSE" /\ u.phase # "IDLE" ->
               [ObsStart(o.block + 1, now) EXCEPT
                    !.pos = u.file_pos,
                    !.done = Append(o.done,
                                    [pos |-> o.pos, wave |-> o.wave,
                                     from |-> t.file_pos, to |-> u.file_pos,
                                     looping |-> t.loop_active,
                                     left |-> t.level, start |-> u.level])]
          [] OTHER -> p

\* the while condition of both loops, with the break on PH_IDLE
Running(t, now_cycle) == t.phase # "IDLE" /\ now_cycle >= t.next_edge_cycle

\* one iteration on the pair <<tape, record>>
TapEdgeObs(s, now_cycle) ==
    LET u == TapEdge(s[1], now_cycle)
    IN  <<u, Observe(s[2], s[1], u, now_cycle)>>

TzxEdgeObs(s, now_cycle) ==
    LET u == TzxEdge(s[1], now_cycle)
    IN  <<u, Observe(s[2], s[1], u, now_cycle)>>

\* a loop that handles one edge per call
TapLoopOnce(s, now_cycle, k) ==
    IF k = 0 \/ ~Running(s[1], now_cycle) THEN s
    ELSE TapEdgeObs(s, now_cycle)

\* while (now_cycle >= tape.next_edge_cycle) of tap_ear_level_until, at
\* most k iterations
RECURSIVE TapLoop(_, _, _)
TapLoop(s, now_cycle, k) ==
    IF k = 0 \/ ~Running(s[1], now_cycle) THEN s
    ELSE IF k = 1 THEN TapEdgeObs(s, now_cycle)
    ELSE CHOOSE r \in {TapLoop(g, now_cycle, k - (k \div 2)) :
                          g \in {TapLoop(s, now_cycle, k \div 2)}} : TRUE

\* while (now_cycle >= tape.next_edge_cycle) of tzx_ear_level_until
RECURSIVE TzxLoop(_, _, _)
TzxLoop(s, now_cycle, k) ==
    IF k = 0 \/ ~Running(s[1], now_cycle) THEN s
    ELSE IF k = 1 THEN TzxEdgeObs(s, now_cycle)
    ELSE CHOOSE r \in {TzxLoop(g, now_cycle, k - (k \div 2)) :
                          g \in {TzxLoop(s, now_cycle, k \div 2)}} : TRUE

\* tap_ear_level_until on <<tape, record>>; the level returned is that of
\* the tape afterwards
tap_ear_level_until(s, now_cycle) ==
    IF ~s[1].playing \/ ~s[1].f \/ s[1].phase = "IDLE" THEN s
    ELSE TapLoop(s, now_cycle, MaxEdges)

\* tzx_ear_level_until
tzx_ear_level_until(s, now_cycle) ==
    IF ~s[1].playing \/ ~s[1].f \/ s[1].phase = "IDLE" THEN s
    ELSE TzxLoop(s, now_cycle, MaxEdges)

\* get_current_ear_level_from_tape, called at global_cycles
get_current_ear_level_from_tape(s, global_cycles) ==
    IF s[1].fmt = "TZX" THEN tzx_ear_level_until(s, global_cycles)
    ELSE IF s[1].fmt = "TAP" THEN tap_ear_level_until(s, global_cycles)
    ELSE s

\* what get_current_ear_level_from_tape returns when it takes the tape
\* from t to u
EarLevel(t, u) ==
    IF t.fmt = "NONE" \/ ~t.playing \/ ~t.f \/ t.phase = "IDLE" THEN TRUE
    ELSE u.level

\* the tape part of port_in for port 0xFE: the tape is asked for its level
\* only while it is playing
PortInEar(s, global_cycles) ==
    IF s[1].playing THEN get_current_ear_level_from_tape(s, global_cycles)
    ELSE s

\* a file name given to a loader: the file it names (file), whether it
\* can be opened (there) and whether it begins with the TZX signature (hdr)
FileName(i) == [file |-> i, there |-> TRUE, hdr |-> TRUE]

\* load_tap over the tape t at global_cycles: <<ok, tape>>
load_tap(t0, name, global_cycles) ==
    LET closed == [t0 EXCEPT !.f = FALSE, !.file = 0]
    IN  IF ~name.there THEN <<FALSE, [closed EXCEPT !.playing = FALSE]>>
        ELSE
        LET t == [closed EXCEPT !.f = TRUE, !.file = name.file,
                                !.file_pos = 0, !.blk = << >>,
                                !.pulse_seq = << >>, !.fmt = "TAP",
                                !.speed = 1, !.playing = TRUE,
                                !.initial_level_known = FALSE]
            r == tap_read_next_block(t)
        IN  IF ~r[1] THEN <<FALSE, [r[2] EXCEPT !.playing = FALSE]>>
            ELSE <<TRUE, start_block_emission(r[2], global_cycles)>>

\* load_tzx
load_tzx(t0, name, global_cycles) ==
    LET closed == [t0 EXCEPT !.f = FALSE, !.file = 0]
    IN  IF ~name.there THEN <<FALSE, closed>>
        ELSE IF ~name.hdr THEN <<FALSE, [closed EXCEPT !.file_pos = 0]>>
        ELSE
        LET t == [closed EXCEPT !.f = TRUE, !.file = name.file,
                                !.file_pos = 0, !.blk = << >>,
                                !.pulse_seq = << >>, !.fmt = "TZX",
                                !.playing = FALSE,
                                !.initial_level_known = FALSE,
                                !.loop_active = FALSE, !.group_depth = 0]
            r == tzx_read_and_prepare_next_block(t, global_cycles)
        IN  IF ~r[1] THEN <<FALSE, [r[2] EXCEPT !.playing = FALSE]>>
            ELSE r

----------------------------------------------------------------------------
(* The tape played by a program that polls port 0xFE *)

\* frames a run lasts
MaxFrames == 830
\* polls that come one scanline after the previous one
MaxLineRuns == 1
\* F7 presses of one run
MaxPresses == 2
\* frames that pass while the tape is stopped
MaxStopped == 1

TapeInit ==
    /\ fdc = fdc_init
    /\ images = InitImages
    /\ env = EnvInit
    /\ mach = mach_init
    /\ \/ \E i \in 1..Len(TapFiles) : tape = load_tap(tape_zero, FileName(i), 0)[2]
       \/ \E i \in 1..Len(TzxFiles) : tape = load_tzx(tape_zero, FileName(i), 0)[2]
    /\ obs = [ObsStart(1, 0) EXCEPT !.pos = tape.file_pos]

\* the tape is not producing edges
Halted(t) == ~t.playing \/ t.phase = "IDLE"

\* d T-states of scanlines pass, and the program then reads port 0xFE
TapeRun(d) ==
    /\ mach.global_cycles + d <= MaxFrames * CYCLES_PER_FRAME
    /\ d = LINE_TSTATES => mach.line_runs < MaxLineRuns
    /\ Halted(tape) => mach.stopped < MaxStopped
    /\ LET now == mach.global_cycles + d
           r == PortInEar(<<tape, obs>>, now)
       IN  /\ tape' = r[1]
           /\ obs' = r[2]
           /\ mach' = [mach EXCEPT
                 !.global_cycles = now,
                 !.polled = tape.playing,
                 !.line_runs = IF d = LINE_TSTATES THEN @ + 1 ELSE @,
                 !.stopped = IF Halted(tape) THEN @ + 1 ELSE @]
    /\ UNCHANGED <<fdc, images, env>>

\* the program reads port 0xFE again in the same scanline
TapePoll ==
    /\ LET r == PortInEar(<<tape, obs>>, mach.global_cycles)
       IN  /\ tape' = r[1]
           /\ obs' = r[2]
    /\ mach' = [mach EXCEPT !.polled = tape.playing]
    /\ UNCHANGED <<fdc, images, env>>

\* F7: tape.playing = !tape.playing
TapeF7 ==
    /\ mach.presses < MaxPresses
    /\ tape' = [tape EXCEPT !.playing = ~tape.playing]
    /\ mach' = [mach EXCEPT !.presses = @ + 1, !.polled = FALSE]
    /\ UNCHANGED <<fdc, images, env, obs>>

TapeNext ==
    \/ TapeRun(LINE_TSTATES)
    \/ TapeRun(CYCLES_PER_FRAME)
    \/ TapePoll
    \/ TapeF7

SpecTape == TapeInit /\ [][TapeNext]_vars

----------------------------------------------------------------------------
(* Claims about the tape engine *)

\* C1: when a call of tap_ear_level_until or tzx_ear_level_until with
\* argument now has returned and the tape is still playing (its phase is
\* not Idle), no edge scheduled at or before now is left, that is
\* next_edge_cycle > now, and the same call made again at once changes
\* nothing: no toggle, the same level, the same engine state.
C1_EdgesConsumed ==
    (mach.polled /\ tape.phase # "IDLE") =>
        /\ tape.playing
        /\ tape.next_edge_cycle > mach.global_cycles
        /\ get_current_ear_level_from_tape(<<tape, obs>>, mach.global_cycles)
               = <<tape, obs>>

\* a call that has consumed the edges of a whole frame of pilot tone
C1_Witness ==
    /\ mach.polled
    /\ tape.phase = "PILOT"
    /\ obs.pilot_n > 30
    /\ mach.global_cycles - obs.last < TS_PILOT

\* the pilot of the current block is over
PilotOver == tape.phase \in {"SYNC1", "SYNC2", "DATA"}
                 \/ (tape.phase = "PAUSE" /\ obs.data_done)

\* C3: the pilot tone of a TAP block has exactly 8063 pulses when the flag
\* byte is 0x00 and 3223 when it is 0xFF, each one half-wave of 2168
\* T-states ended by one toggle, and is followed by one sync1 half-wave of
\* 667 and one sync2 half-wave of 735 T-states before the first data bit.
C3_PilotAndSync ==
    (tape.fmt = "TAP" /\ PilotOver /\ tape.blk[1] \in {0, 255}) =>
        /\ obs.pilot_n = IF tape.blk[1] = 0 THEN 8063 ELSE 3223
        /\ obs.pilot_hw = {TS_PILOT}
        /\ tape.phase # "SYNC1" => obs.sync1 = TS_SYNC1
        /\ tape.phase \notin {"SYNC1", "SYNC2"} => obs.sync2 = TS_SYNC2

\* a block with the timings of the ROM loader and whole bytes
StandardBlock(t) ==
    /\ t.fmt \in {"TAP", "TZX"}
    /\ Len(t.blk) >= 1
    /\ t.t_pilot = TS_PILOT /\ t.t_sync1 = TS_SYNC1 /\ t.t_sync2 = TS_SYNC2
    /\ t.t_bit0 = TS_BIT0 /\ t.t_bit1 = TS_BIT1
    /\ t.used_bits_last = 8

\* the half-waves of the bits of a block, MSB first, two for each bit
DataHalfwaves(blk) ==
    [i \in 1..(16 * Len(blk)) |->
        IF BitOf(blk[((i - 1) \div 16) + 1], 7 - (((i - 1) % 16) \div 2))
        THEN TS_BIT1 ELSE TS_BIT0]

\* C4: in the Data phase of a standard-timing block of L >= 1 bytes every
\* bit, MSB first from byte 0 to byte L-1, is emitted as two consecutive
\* half-waves of equal length (855 T-states for 0, 1710 for 1), so that the
\* block produces exactly 16*L data toggles before the engine enters Pause,
\* and pulse_of_bit is 0 or 1 in every state.
C4_DataBits ==
    /\ tape.pulse_of_bit \in {0, 1}
    /\ (StandardBlock(tape) /\ tape.phase = "DATA") =>
           /\ Len(obs.data) < 16 * Len(tape.blk)
           /\ obs.data = SubSeq(DataHalfwaves(tape.blk), 1, Len(obs.data))
           /\ obs.toggles = Len(obs.data)
           /\ tape.pulse_of_bit = Len(obs.data) % 2
    /\ (StandardBlock(tape) /\ tape.phase = "PAUSE" /\ obs.data_done) =>
           /\ obs.data = DataHalfwaves(tape.blk)
           /\ obs.toggles = 16 * Len(tape.blk)

\* a two-byte block with both bit values has been emitted to its end
C4_Witness ==
    /\ StandardBlock(tape) /\ tape.phase = "PAUSE" /\ obs.data_done
    /\ Len(tape.blk) = 2
    /\ Len(obs.data) = 32
    /\ {obs.data[i] : i \in 1..32} = {TS_BIT0, TS_BIT1}

----------------------------------------------------------------------------
(* The CPU reading port 0xFE inside the scanline loop of main *)

\* scanlines of one run
MaxLines == 10

\* cycles of the instructions the program is made of, other than IN A,(n)
InstrCycles == {4, 7, 10}
\* cycles of IN A,(n)
InCycles == 11

MachineInit ==
    /\ fdc = fdc_init
    /\ images = InitImages
    /\ env = EnvInit
    /\ mach = [mach_init EXCEPT !.target = LINE_TSTATES]
    /\ obs = ObsStart(1, 0)
    /\ \E i \in 1..Len(TapFiles) : tape = load_tap(tape_zero, FileName(i), 0)[2]

\* z80_step of an instruction that reads no port, inside z80_step_n
CpuStep(n) ==
    /\ mach.cycles < mach.target
    /\ mach' = [mach EXCEPT !.cycles = @ + n, !.in_valid = FALSE,
                            !.in_c = 0, !.in_bit6 = FALSE, !.in_ideal = FALSE]
    /\ UNCHANGED <<fdc, images, env, tape, obs>>

\* z80_step of IN A,(0xFE): port_in runs at CPU time mach.cycles and asks
\* the tape for its level at global_cycles
CpuIn ==
    /\ mach.cycles < mach.target
    /\ LET r == PortInEar(<<tape, obs>>, mach.global_cycles)
           ideal == PortInEar(<<tape, obs>>, mach.cycles)
       IN  /\ tape' = r[1]
           /\ obs' = r[2]
           /\ mach' = [mach EXCEPT
                 !.cycles = @ + InCycles,
                 !.in_valid = tape.playing,
                 !.in_c = mach.cycles,
                 !.in_bit6 = EarLevel(tape, r[1]),
                 !.in_ideal = EarLevel(tape, ideal[1])]
    /\ UNCHANGED <<fdc, images, env>>

\* z80_step_n returns, the scanline ends and the next z80_step_n begins
LineEnd ==
    /\ mach.cycles >= mach.target
    /\ mach.lines < MaxLines
    /\ mach' = [mach EXCEPT !.global_cycles = @ + LINE_TSTATES,
                            !.lines = @ + 1,
                            !.target = mach.cycles + LINE_TSTATES,
                            !.in_valid = FALSE, !.in_c = 0,
                            !.in_bit6 = FALSE, !.in_ideal = FALSE]
    /\ UNCHANGED <<fdc, images, env, tape, obs>>

MachineNext ==
    \/ \E n \in InstrCycles : CpuStep(n)
    \/ CpuIn
    \/ LineEnd

SpecMachine == MachineInit /\ [][MachineNext]_vars

\* C2: when the CPU executes an IN from port 0xFE at CPU time c while the
\* tape is playing, bit 6 of the value read is the tape level after every
\* edge scheduled at or before c has been applied: no edge with scheduled
\* time <= c is still pending at the moment of the read.
C2_ReadAtCpuTime ==
    (mach.in_valid /\ tape.phase # "IDLE") =>
        /\ tape.next_edge_cycle > mach.in_c
        /\ mach.in_bit6 = mach.in_ideal

----------------------------------------------------------------------------
(* A Seek and the scanlines after it: the program loads the data and track *)
(* registers, issues a Seek, and main() then passes T-states to fdc_step.  *)

MaxAfterSteps == 2
MaxSeekTotal  == 400000
SeekCmdVals   == {16, 24, 31}
\* a scanline, and the time of a seek over no distance
SeekStepVals  == {LINE_TSTATES, 21000}

SeekInit ==
    /\ fdc = fdc_init
    /\ images = InitImages
    /\ env = EnvInit
    /\ tape = tape_zero
    /\ mach = mach_init
    /\ obs = ObsStart(1, 0)

\* fdc_port_out(FDC_PORT_STATUS, cmd) with a Seek command
SeekCommand(cmd) ==
    /\ ~env.seek.on
    /\ fdc' = fdc_execute_command(fdc, cmd)
    /\ env' = [env EXCEPT !.seek = [on |-> TRUE, d |-> fdc.data, t |-> fdc.track,
                                    total |-> 0, after |-> 0]]
    /\ UNCHANGED <<images, tape, mach, obs>>

\* fdc_step(tstates) after the Seek
SeekStep(tstates) ==
    /\ env.seek.on
    /\ env.seek.total < MaxSeekTotal
    /\ FDC_STATUS_BUSY \in fdc.status \/ env.seek.after < MaxAfterSteps
    /\ fdc' = fdc_step(fdc, tstates)
    /\ env' = [env EXCEPT !.seek.total = @ + tstates,
                          !.seek.after = IF FDC_STATUS_BUSY \in fdc.status
                                         THEN @ ELSE @ + 1]
    /\ UNCHANGED <<images, tape, mach, obs>>

SeekNext ==
    \/ \E val \in DataVals : ~env.seek.on /\ FdcOutData(val)
    \/ \E val \in TrackVals : ~env.seek.on /\ FdcOutTrack(val)
    \/ \E cmd \in SeekCmdVals : SeekCommand(cmd)
    \/ \E tstates \in SeekStepVals : SeekStep(tstates)

SpecSeek == SeekInit /\ [][SeekNext]_vars

\* 3500 * (6 + |D - T|) for the registers at the Seek command
SeekTime == 
    3500 * (6 + (IF env.seek.d > env.seek.t THEN env.seek.d - env.seek.t
                 ELSE env.seek.t - env.seek.d))

\* C13: after a Seek issued with data register D and track register T, BUSY
\* stays set while the T-states passed to fdc_step total less than
\* 3500 * (6 + |D - T|); from the step that reaches this total BUSY is
\* clear, the IRQ has been raised once, and the track register equals D.
C13_SeekTiming ==
    env.seek.on =>
        /\ env.seek.total < SeekTime =>
              (FDC_STATUS_BUSY \in fdc.status /\ fdc.irqs = 0)
        /\ env.seek.total >= SeekTime =>
              /\ FDC_STATUS_BUSY \notin fdc.status
              /\ fdc.irqs = 1
              /\ fdc.track = env.seek.d

\* a Seek over a distance has just completed after several steps
C13_Witness ==
    /\ env.seek.on
    /\ env.seek.d # env.seek.t
    /\ env.seek.total >= SeekTime
    /\ env.seek.total < SeekTime + LINE_TSTATES
    /\ env.seek.after = 0
    /\ FDC_STATUS_BUSY \notin fdc.status
    /\ fdc.irqs = 1
    /\ fdc.track = env.seek.d

----------------------------------------------------------------------------
(* SCL archives and TRD catalogs (src/disk/scl.c, trd_open of              *)
(* src/disk/trd.c), byte by byte.  In SpecDisk the variable images holds   *)
(* the file given on the command line (src) and, once it has been opened,  *)
(* what opening it returned (img).                                         *)

MaxArchiveFiles == 2

\* sizeof(trd_file_entry_t) and sizeof(trd_disk_info_t), both packed
SIZEOF_ENTRY == 18
SIZEOF_INFO  == 29
\* the step of trd_open from one catalog entry to the next
CATALOG_STEP == 16
TRD_MAX_FILES == 128

\* scl_file_desc_t values of the archives: names "BOOT    " and "game    ",
\* extension "C  "
SclDescs ==
    [filename : {<<66, 79, 79, 84, 32, 32, 32, 32>>,
                 <<103, 97, 109, 101, 32, 32, 32, 32>>},
     extension : {<<67, 32, 32>>},
     start : {24576},
     length : {200, 300},
     sectors_used : {0, 1, 17}]

\* the archives: the descriptors in order; the payloads follow them in the
\* file, byte j of that stream being SclStreamByte(j)
Archives ==
    {[kind |-> "SCL", descs |-> d] :
        d \in UNION {[1 .. n -> SclDescs] : n \in 0 .. MaxArchiveFiles}}

SclStreamByte(j) == 1 + (j % 7)

\* the sectors of the files before file i of the archive
RECURSIVE SectorsBefore(_, _)
SectorsBefore(descs, i) ==
    IF i <= 1 THEN 0
    ELSE SectorsBefore(descs, i - 1) + descs[i - 1].sectors_used

\* scl_open: <<next_track, next_sector>> when the entry of file i is built
RECURSIVE SclAlloc(_, _)
SclAlloc(descs, i) ==
    IF i <= 1 THEN <<1, 0>>
    ELSE LET p == SclAlloc(descs, i - 1)
             s == p[2] + descs[i - 1].sectors_used
         IN  <<p[1] + s \div TRD_SECTORS_PER_TRACK, s % TRD_SECTORS_PER_TRACK>>

\* scl_open: the trd_file_entry_t written for file i
SclEntry(descs, i) ==
    [filename |-> descs[i].filename, extension |-> descs[i].extension,
     start |-> descs[i].start, length |-> descs[i].length,
     sectors_used |-> descs[i].sectors_used,
     start_sector |-> U8(SclAlloc(descs, i)[2]),
     start_track |-> U8(SclAlloc(descs, i)[1])]

\* a trd_file_entry_t as the bytes fwrite stores
EntryBytes(e) ==
    e.filename \o e.extension \o
    <<e.start % 256, e.start \div 256, e.length % 256, e.length \div 256,
      e.sectors_used, e.start_sector, e.start_track>>

\* scl_open: the trd_disk_info_t written at sector 8
DiskInfoBytes(files_count) ==
    <<22, files_count, 2544 % 256, 2544 \div 256, 16, 0, 0,
      0, 0, 0, 0, 0, 0, 0, 0, 0, 0, 0,
      83, 67, 76, 67, 79, 78, 86, 0, 0, 0, 0>>

\* scl_open: the byte at offset off of the temporary file when it is closed.
\* The file is zero-filled, then the entries are written one after another
\* from offset 0, then the disk info at sector 8, then the payloads from
\* where the disk info ended.
SclFileByte(a, off) ==
    LET n == Len(a.descs)
        info0 == 8 * TRD_SECTOR_SIZE
        data0 == info0 + SIZEOF_INFO
        total == SectorsBefore(a.descs, n + 1) * TRD_SECTOR_SIZE
        listed == IF n < TRD_MAX_FILES THEN n ELSE TRD_MAX_FILES
    IN  IF off >= data0 /\ off < data0 + total
        THEN SclStreamByte(off - data0)
        ELSE IF off >= info0 /\ off < data0
        THEN DiskInfoBytes(n)[off - info0 + 1]
        ELSE IF off < SIZEOF_ENTRY * listed
        THEN EntryBytes(SclEntry(a.descs, off \div SIZEOF_ENTRY + 1))
                [(off % SIZEOF_ENTRY) + 1]
        ELSE 0

\* the catalog slots that the TRD files of SpecDisk fill, and what they hold
Slots == {0, 1, 15, 16, 127}

\* the 16 bytes of a slot: sixteen different bytes, the first one 0x01 in
\* a deleted entry and 0x00 at the end of the catalog
SlotBytes(kind, slot) ==
    [k \in 1 .. CATALOG_STEP |->
        IF k = 1 /\ kind = "deleted" THEN 1
        ELSE IF k = 1 /\ kind = "end" THEN 0
        ELSE 32 + ((slot % 8) * 16) + k]

\* TRD files of 655360 bytes and type 0x16 with every catalog, and files
\* with an empty catalog of other sizes and disk types
TrdFiles ==
    {[kind |-> "TRD", cat |-> c, size |-> 655360, type |-> 22] :
        c \in [Slots -> {"file", "deleted", "end"}]}
    \cup {[kind |-> "TRD", cat |-> [sl \in Slots |-> "end"], size |-> sz,
           type |-> ty] :
             sz \in {655360, 327680, 163840}, ty \in {22, 23, 24, 0}}

\* the byte at offset off of a TRD file
TrdFileByte(t, off) ==
    IF off < 8 * TRD_SECTOR_SIZE
    THEN IF off \div CATALOG_STEP \in Slots
         THEN SlotBytes(t.cat[off \div CATALOG_STEP], off \div CATALOG_STEP)
                 [(off % CATALOG_STEP) + 1]
         ELSE 0
    ELSE IF off = 8 * TRD_SECTOR_SIZE THEN t.type
    ELSE 0

FileByte(src, off) ==
    IF src.kind = "SCL" THEN SclFileByte(src, off) ELSE TrdFileByte(src, off)

\* what the two bytes after sector_data[] may hold when trd_open reads them
Beyond == {<<0, 0>>, <<255, 9>>}

\* trd_open: byte k of the trd_file_entry_t at sector_data + i * 16 of
\* catalog sector sec; for i = 15 bytes 16 and 17 lie after the array
EntryByte(src, sec, i, k, beyond) ==
    IF i * CATALOG_STEP + k < TRD_SECTOR_SIZE
    THEN FileByte(src, sec * TRD_SECTOR_SIZE + i * CATALOG_STEP + k)
    ELSE beyond[i * CATALOG_STEP + k - TRD_SECTOR_SIZE + 1]

\* trd_open: the memcpy of sizeof(trd_file_entry_t) bytes into files[]
DecodeEntry(src, sec, i, beyond) ==
    [filename |-> [k \in 1 .. 8 |-> EntryByte(src, sec, i, k - 1, beyond)],
     extension |-> [k \in 1 .. 3 |-> EntryByte(src, sec, i, 7 + k, beyond)],
     start |-> EntryByte(src, sec, i, 11, beyond)
               + 256 * EntryByte(src, sec, i, 12, beyond),
     length |-> EntryByte(src, sec, i, 13, beyond)
                + 256 * EntryByte(src, sec, i, 14, beyond),
     sectors_used |-> EntryByte(src, sec, i, 15, beyond),
     start_sector |-> EntryByte(src, sec, i, 16, beyond),
     start_track |-> EntryByte(src, sec, i, 17, beyond)]

\* the catalog slots 0 .. 127 whose first byte is neither 0x00 nor 0x01
ListedSlots(src) ==
    SelectSeq([s \in 1 .. TRD_MAX_FILES |-> s - 1],
              LAMBDA s : FileByte(src, s * CATALOG_STEP) \notin {0, 1})

\* the size of the file trd_open sees: scl_open writes 80 * 2 * 16 sectors
FileSize(src) ==
    IF src.kind = "SCL" THEN 80 * 2 * TRD_SECTORS_PER_TRACK * TRD_SECTOR_SIZE
    ELSE src.size

\* trd_open: the sizes it mounts
KnownSize(src) == FileSize(src) \in {655360, 327680}

\* trd_open of a file of a size it mounts
trd_open(src, read_only, beyond) ==
    LET type == FileByte(src, 8 * TRD_SECTOR_SIZE)
        listed == ListedSlots(src)
    IN  [read_only |-> read_only, modified |-> FALSE,
         tracks |-> IF type = 23 THEN 40 ELSE 80,
         sides |-> IF type = 24 THEN 1 ELSE 2,
         files |-> [j \in 1 .. Len(listed) |->
                       DecodeEntry(src, listed[j] \div 16, listed[j] % 16,
                                   beyond)]]

\* scl_open
scl_open(a, beyond) ==
    [trd |-> trd_open(a, FALSE, beyond), read_only |-> TRUE]

DiskInit ==
    /\ images \in {[src |-> s, opened |-> FALSE, refused |-> FALSE,
                     img |-> NULL] :
                     s \in Archives \cup TrdFiles}
    /\ fdc = fdc_init
    /\ env = EnvInit
    /\ tape = tape_zero
    /\ mach = mach_init
    /\ obs = ObsStart(1, 0)

\* main: scl_open(argv[i])
SclOpen ==
    /\ images.src.kind = "SCL"
    /\ ~images.opened
    /\ \E beyond \in Beyond :
          images' = [images EXCEPT !.opened = TRUE,
                                   !.img = scl_open(images.src, beyond)]
    /\ UNCHANGED <<fdc, env, tape, mach, obs>>

\* main: trd_open(argv[i], read_only_disks)
TrdOpen(read_only) ==
    /\ images.src.kind = "TRD"
    /\ ~images.opened /\ ~images.refused
    /\ \E beyond \in Beyond :
          images' = IF KnownSize(images.src)
                    THEN [images EXCEPT
                            !.opened = TRUE,
                            !.img = trd_open(images.src, read_only, beyond)]
                    ELSE [images EXCEPT !.refused = TRUE]
    /\ UNCHANGED <<fdc, env, tape, mach, obs>>

DiskNext ==
    \/ SclOpen
    \/ \E read_only \in BOOLEAN : TrdOpen(read_only)

SpecDisk == DiskInit /\ [][DiskNext]_vars

\* the catalog entry lists file i of the archive with its name, extension,
\* start, length and sectors_used, at the position that follows the files
\* before it from track 1 sector 0
SameFile(e, descs, i) ==
    /\ e.filename = descs[i].filename
    /\ e.extension = descs[i].extension
    /\ e.start = descs[i].start
    /\ e.length = descs[i].length
    /\ e.sectors_used = descs[i].sectors_used
    /\ e.start_track * TRD_SECTORS_PER_TRACK + e.start_sector
          = TRD_SECTORS_PER_TRACK + SectorsBefore(descs, i)

\* the sectors_used sectors from the entry's start position hold the
\* payload of file i
SamePayload(src, e, i) ==
    \A k \in 0 .. e.sectors_used * TRD_SECTOR_SIZE - 1 :
        FileByte(src, (e.start_track * TRD_SECTORS_PER_TRACK + e.start_sector)
                         * TRD_SECTOR_SIZE + k)
          = SclStreamByte(SectorsBefore(src.descs, i) * TRD_SECTOR_SIZE + k)

\* C14: the image converted from an archive of N <= 128 files lists the
\* same N files in order with the same name, extension, start, length and
\* sectors_used, at start positions consecutive from track 1 sector 0, and
\* the sectors_used sectors read from each start position are that file's
\* payload.
C14_Conversion ==
    (images.src.kind = "SCL" /\ images.opened
        /\ Len(images.src.descs) <= TRD_MAX_FILES) =>
    LET files == scl_get_trd(images.img).files
    IN  /\ Len(files) = Len(images.src.descs)
        /\ \A i \in 1 .. Len(files) :
              /\ SameFile(files[i], images.src.descs, i)
              /\ SamePayload(images.src, files[i], i)

\* byte k of the 16-byte record of catalog slot s
RecordByte(src, s, k) == FileByte(src, s * 16 + k)

\* the entry decodes the 16-byte record of slot s: bytes 0-7 filename,
\* byte 8 extension type, bytes 9-10 start, bytes 11-12 length, byte 13
\* sectors used, byte 14 start sector, byte 15 start track
DecodesRecord(e, src, s) ==
    /\ e.filename = [k \in 1 .. 8 |-> RecordByte(src, s, k - 1)]
    /\ e.extension[1] = RecordByte(src, s, 8)
    /\ e.start = RecordByte(src, s, 9) + 256 * RecordByte(src, s, 10)
    /\ e.length = RecordByte(src, s, 11) + 256 * RecordByte(src, s, 12)
    /\ e.sectors_used = RecordByte(src, s, 13)
    /\ e.start_sector = RecordByte(src, s, 14)
    /\ e.start_track = RecordByte(src, s, 15)

\* C16: trd_open decodes each of the 128 catalog entries as a 16-byte
\* record (bytes 0-7 filename, byte 8 extension type, bytes 9-10 start,
\* bytes 11-12 length, byte 13 sectors used, byte 14 start sector, byte 15
\* start track) and lists an entry exactly when its byte 0 is neither 0x00
\* nor 0x01.
C16_Catalog ==
    (images.src.kind = "TRD" /\ images.opened) =>
    LET wanted == {s \in 0 .. TRD_MAX_FILES - 1 :
                      RecordByte(images.src, s, 0) \notin {0, 1}}
        nth(j) == CHOOSE s \in wanted :
                      Cardinality({r \in wanted : r < s}) = j - 1
    IN  /\ Len(images.img.files) = Cardinality(wanted)
        /\ \A j \in 1 .. Len(images.img.files) :
              DecodesRecord(images.img.files[j], images.src, nth(j))

----------------------------------------------------------------------------
(* The Z80 core (src/jgz80/z80.c) under main()'s frame loop.  In SpecZ80   *)
(* the variable mach holds the CPU registers (cpu), the bytes written to   *)
(* RAM (ram), the program in memory (prog), the position in the frame loop *)
(* and a record of the last operation.                                     *)

MaxCpuFrames == 2
MaxHaltSteps == 2
MaxResets    == 1

FULL_HEIGHT == 312
RAM_START   == 16384

\* what memory holds when the frame loop starts: a ROM file alone, or a
\* ROM file and a .sna snapshot whose code ends in the byte last
Programs ==
    {[sna |-> FALSE, code |-> c, last |-> 0, im |-> 1, iff2 |-> 0] :
        c \in {"nops", "halt", "ei_loop"}}
    \cup {[sna |-> TRUE, code |-> "sled", last |-> 251, im |-> 1, iff2 |-> 0],
          [sna |-> TRUE, code |-> "sled", last |-> 251, im |-> 2, iff2 |-> 0],
          [sna |-> TRUE, code |-> "sled", last |-> 118, im |-> 2, iff2 |-> 1],
          [sna |-> TRUE, code |-> "sled", last |-> 118, im |-> 1, iff2 |-> 0]}

\* the code of a program as <<address, bytes>> pieces; every other byte is
\* 0x00 (NOP).  Jump targets have equal bytes.
\*   halt:    NOP; NOP; HALT
\*   ei_loop: JP 0303h; 0303h: EI; JP 0303h;
\*            0038h: IM 2; EI; JP 3A3Ah;  3A3Ah: EI; JP 3A3Ah;
\*            00FFh: the IM 2 vector for I = 0, 2020h;  2020h: EI; JP 2020h
\*   sled:    the stack at FFF0h holds 9000h; NOPs from 9000h to D43Eh;
\*            D43Fh: last; JP D4D4h; D4D4h: JP D4D4h
\*            0038h: EI; JP 3A3Ah;  3A3Ah: JP 3A3Ah
\*            80FFh: the IM 2 vector for I = 80h, E0E0h;  E0E0h: EI; JP E1E1h
\*            E1E1h: JP E1E1h
Pieces(p) ==
    CASE p.code = "nops" -> {}
      [] p.code = "halt" -> {<<2, <<118>>>>}
      [] p.code = "ei_loop" ->
           {<<0, <<195, 3, 3>>>>, <<771, <<251, 195, 3, 3>>>>,
            <<56, <<237, 94, 251, 195, 58, 58>>>>,
            <<14906, <<251, 195, 58, 58>>>>,
            <<255, <<32, 32>>>>, <<8224, <<251, 195, 32, 32>>>>}
      [] p.code = "sled" ->
           {<<65520, <<0, 144>>>>,
            <<54335, <<p.last, 195, 212, 212>>>>,
            <<54484, <<195, 212, 212>>>>,
            <<56, <<251, 195, 58, 58>>>>, <<14906, <<195, 58, 58>>>>,
            <<33023, <<224, 224>>>>,
            <<57568, <<251, 195, 225, 225>>>>,
            <<57825, <<195, 225, 225>>>>}

\* memory[addr] when the frame loop starts
MemInit(p, addr) ==
    IF \E q \in Pieces(p) : addr >= q[1] /\ addr < q[1] + Len(q[2])
    THEN LET q == CHOOSE q \in Pieces(p) :
                      addr >= q[1] /\ addr < q[1] + Len(q[2])
         IN  q[2][addr - q[1] + 1]
    ELSE 0

\* read_byte, TR-DOS ROM not active
read_byte(m, addr) ==
    IF addr \in DOMAIN m.ram THEN m.ram[addr] ELSE MemInit(m.prog, addr)

\* write_byte: writes below RAM_START are dropped
write_byte(m, addr, val) ==
    IF addr >= RAM_START
    THEN [m EXCEPT !.ram = [a \in (DOMAIN m.ram) \cup {addr} |->
                               IF a = addr THEN val ELSE m.ram[a]]]
    ELSE m

\* fetch: the byte at pc is read by the caller; pc and R advance
fetch(m) ==
    [m EXCEPT !.cpu.pc = (@ + 1) % 65536,
              !.cpu.r = (@ \div 128) * 128 + ((@ + 1) % 128)]

\* push
push(m, val) ==
    LET sp == (m.cpu.sp + 65536 - 2) % 65536
        m1 == [m EXCEPT !.cpu.sp = sp]
        m2 == write_byte(m1, sp, val % 256)
    IN  write_byte(m2, (sp + 1) % 65536, val \div 256)

\* z80_init followed by main's pc = 0, sp = 0, interrupt_mode = 1
z80_init ==
    [pc |-> 0, sp |-> 0, i |-> 0, r |-> 0, iff1 |-> FALSE, iff2 |-> FALSE,
     interrupt_mode |-> 1, halted |-> FALSE, cycles |-> 0]

\* load_sna of a snapshot with I = 80h, R = FFh, SP = FFF0h: the registers
\* from the header, pc popped from the stack, iff1 = iff2
load_sna(c, p) ==
    [c EXCEPT !.i = 128, !.iff2 = (p.iff2 # 0), !.iff1 = (p.iff2 # 0),
              !.r = 255, !.interrupt_mode = p.im,
              !.pc = MemInit(p, 65520) + 256 * MemInit(p, 65521),
              !.sp = 65520 + 2]

\* load_sna when the file ends inside the RAM image: the registers of the
\* header are in place, pc and iff1 are not
load_sna_header(c, p) ==
    [c EXCEPT !.i = 128, !.iff2 = (p.iff2 # 0), !.r = 255,
              !.interrupt_mode = p.im, !.sp = 65520]

\* z80_reset
z80_reset(c) ==
    [c EXCEPT !.pc = 0, !.iff1 = FALSE, !.iff2 = FALSE, !.halted = FALSE,
              !.r = 0]

\* z80_step for the instructions of Programs: NOP, HALT, JP nn, DI, EI,
\* IM 1, IM 2, the other ED codes and the codes of the default case.  In
\* JP nn the two fetch calls are operands of one |, so either may run
\* first: first_low says that the first one gives the low byte.
z80_step(m, first_low) ==
    IF m.cpu.halted THEN m
    ELSE LET opcode == read_byte(m, m.cpu.pc)
             m1 == fetch(m)
             b1 == read_byte(m1, m1.cpu.pc)
             m2 == fetch(m1)
             b2 == read_byte(m2, m2.cpu.pc)
             m3 == fetch(m2)
         IN  CASE opcode = 0 ->
                    [m1 EXCEPT !.cpu.cycles = @ + 4]
               [] opcode = 118 ->
                    [m1 EXCEPT !.cpu.halted = TRUE, !.cpu.cycles = @ + 4]
               [] opcode = 195 ->
                    [m3 EXCEPT !.cpu.pc = IF first_low THEN b1 + 256 * b2
                                          ELSE b2 + 256 * b1,
                               !.cpu.cycles = @ + 10]
               [] opcode = 243 ->
                    [m1 EXCEPT !.cpu.iff1 = FALSE, !.cpu.iff2 = FALSE,
                               !.cpu.cycles = @ + 4]
               [] opcode = 251 ->
                    [m1 EXCEPT !.cpu.iff1 = TRUE, !.cpu.iff2 = TRUE,
                               !.cpu.cycles = @ + 4]
               [] opcode = 237 ->
                    [m2 EXCEPT !.cpu.interrupt_mode =
                                   IF b1 = 86 THEN 1
                                   ELSE IF b1 = 94 THEN 2 ELSE @,
                               !.cpu.cycles = @ + 8]
               [] OTHER ->
                    [m1 EXCEPT !.cpu.cycles = @ + 4]

\* z80_pulse_irq
z80_pulse_irq(m) ==
    IF ~m.cpu.iff1 THEN m
    ELSE LET m1 == push([m EXCEPT !.cpu.halted = FALSE, !.cpu.iff1 = FALSE,
                                  !.cpu.iff2 = FALSE], m.cpu.pc)
             vector == m.cpu.i * 256 + 255
         IN  IF m.cpu.interrupt_mode = 2
             THEN [m1 EXCEPT !.cpu.pc =
                      read_byte(m1, vector)
                      + 256 * read_byte(m1, (vector + 1) % 65536)]
             ELSE [m1 EXCEPT !.cpu.pc = 56]

\* no HALT executed since the CPU last ran
NoHalt == [steps |-> 0, pc |-> 0, r |-> 0]

\* main up to the frame loop.  pos is "input" before handle_input and
\* "line" inside z80_step_n; last is the last operation ("init", "input",
\* "reset", "step", "line", "irq"); before is the CPU before the last
\* z80_pulse_irq; after_ei says that the last instruction executed was EI
\* (was_after_ei: the same before the last z80_pulse_irq); halt counts the
\* z80_step calls made since the CPU halted, with pc and R as HALT left them
Z80Init ==
    /\ \E p \in Programs :
          mach = [cpu |-> IF p.sna THEN load_sna(z80_init, p) ELSE z80_init,
                  ram |-> [a \in {} |-> 0], prog |-> p,
                  pos |-> "input", line |-> 0, frame |-> 0, target |-> 0,
                  resets |-> 0, last |-> "init", before |-> z80_init,
                  after_ei |-> FALSE, was_after_ei |-> FALSE,
                  halt |-> NoHalt]
    /\ fdc = fdc_init
    /\ images = InitImages
    /\ env = EnvInit
    /\ tape = tape_zero
    /\ obs = ObsStart(1, 0)

\* handle_input at the top of a frame, with F12 pressed (z80_reset) or not,
\* and the first z80_step_n of the frame called
Z80FrameStart(f12) ==
    /\ mach.pos = "input"
    /\ mach.frame < MaxCpuFrames
    /\ f12 => mach.resets < MaxResets
    /\ LET c == IF f12 THEN z80_reset(mach.cpu) ELSE mach.cpu
       IN  mach' = [mach EXCEPT !.cpu = c, !.pos = "line", !.line = 0,
                                !.target = c.cycles + LINE_TSTATES,
                                !.resets = IF f12 THEN @ + 1 ELSE @,
                                !.last = IF f12 THEN "reset" ELSE "input",
                                !.before = z80_init,
                                !.was_after_ei = FALSE]
    /\ UNCHANGED <<fdc, images, env, tape, obs>>

\* one z80_step inside z80_step_n
Z80Step(first_low) ==
    /\ mach.pos = "line"
    /\ mach.cpu.cycles < mach.target
    /\ mach.cpu.halted => mach.halt.steps < MaxHaltSteps
    /\ LET m == z80_step(mach, first_low)
       IN  mach' = [m EXCEPT
              !.last = "step",
              !.after_ei = IF mach.cpu.halted THEN @
                           ELSE read_byte(mach, mach.cpu.pc) = 251,
              !.halt = IF mach.cpu.halted THEN [@ EXCEPT !.steps = @ + 1]
                       ELSE IF m.cpu.halted
                       THEN [steps |-> 0, pc |-> m.cpu.pc, r |-> m.cpu.r]
                       ELSE NoHalt]
    /\ UNCHANGED <<fdc, images, env, tape, obs>>

\* z80_step_n returns and the scanline ends; after the last line of the
\* frame z80_pulse_irq is called, otherwise the next z80_step_n
Z80LineEnd ==
    /\ mach.pos = "line"
    /\ mach.cpu.cycles >= mach.target
    /\ IF mach.line = FULL_HEIGHT - 1
       THEN LET m == z80_pulse_irq(mach)
            IN  mach' = [m EXCEPT !.pos = "input", !.frame = @ + 1,
                                  !.last = "irq", !.before = mach.cpu,
                                  !.was_after_ei = mach.after_ei,
                                  !.halt = IF m.cpu.halted THEN @ ELSE NoHalt]
       ELSE mach' = [mach EXCEPT !.line = @ + 1,
                                 !.target = mach.cpu.cycles + LINE_TSTATES,
                                 !.last = "line"]
    /\ UNCHANGED <<fdc, images, env, tape, obs>>

Z80Next ==
    \/ \E f12 \in BOOLEAN : Z80FrameStart(f12)
    \/ \E first_low \in BOOLEAN : Z80Step(first_low)
    \/ Z80LineEnd

SpecZ80 == Z80Init /\ [][Z80Next]_vars

\* the word on top of the stack
StackTop(m) ==
    read_byte(m, m.cpu.sp) + 256 * read_byte(m, (m.cpu.sp + 1) % 65536)

\* C17: z80_pulse_irq with IFF1 set clears IFF1 and IFF2, leaves the halted
\* state, pushes the address of the next instruction, sets PC to 0038h in
\* IM 1 or to the word at (I << 8 | FFh) in IM 2, and charges 13 T-states;
\* with IFF1 clear it changes nothing.
C17_PulseIrq ==
    mach.last = "irq" =>
        IF mach.before.iff1
        THEN /\ ~mach.cpu.iff1 /\ ~mach.cpu.iff2
             /\ ~mach.cpu.halted
             /\ mach.cpu.sp = (mach.before.sp + 65536 - 2) % 65536
             /\ StackTop(mach) = mach.before.pc
             /\ mach.before.interrupt_mode = 1 => mach.cpu.pc = 56
             /\ mach.before.interrupt_mode = 2 =>
                   mach.cpu.pc =
                      read_byte(mach, mach.before.i * 256 + 255)
                      + 256 * read_byte(mach,
                                        (mach.before.i * 256 + 256) % 65536)
             /\ mach.cpu.cycles = mach.before.cycles + 13
        ELSE mach.cpu = mach.before

\* R after n instruction fetches: the low 7 bits count, bit 7 stays
RAfter(r, n) == (r \div 128) * 128 + ((r + n) % 128)

\* C18: while the CPU is halted, every z80_step leaves PC unchanged and
\* increments the low 7 bits of R, preserving bit 7.
C18_HaltedStep ==
    mach.cpu.halted =>
        /\ mach.cpu.pc = mach.halt.pc
        /\ mach.cpu.r = RAfter(mach.halt.r, mach.halt.steps)

\* C19: a maskable interrupt asserted right after an EI instruction is not
\* acknowledged at that point, only after one further instruction.
C19_EiDelay ==
    (mach.last = "irq" /\ mach.was_after_ei) =>
        /\ mach.cpu.pc = mach.before.pc
        /\ mach.cpu.sp = mach.before.sp
        /\ mach.cpu.iff1 = mach.before.iff1

\* C20: after z80_reset from any CPU state PC = 0000h, IFF1 = IFF2 = false,
\* interrupt mode = 0, I = 0, R = 0 and halted = false.
C20_Reset ==
    mach.last = "reset" =>
        /\ mach.cpu.pc = 0
        /\ ~mach.cpu.iff1 /\ ~mach.cpu.iff2
        /\ mach.cpu.interrupt_mode = 0
        /\ mach.cpu.i = 0
        /\ mach.cpu.r = 0
        /\ ~mach.cpu.halted

\* C21: every frame of the main loop completes: from any CPU state,
\* halted included, each call z80_step_n(224) returns.  The loop of
\* z80_step_n runs while cycles < target, so it returns only if every
\* z80_step made inside it advances cpu.cycles.
C21_LineReturns ==
    (mach.pos = "line" /\ mach.cpu.cycles < mach.target) =>
        \A first_low \in BOOLEAN :
            z80_step(mach, first_low).cpu.cycles > mach.cpu.cycles

-----------------------------------------------------------------------------
(* The AY-3-8912 sound chip (src/ay/ay.c).  The chip state is the static   *)
(* ay of ay.c; here it is mach.ay, and obs holds what a listener measures  *)
(* on the tone outputs and the envelope clock.                             *)

AY_AFINE == 0
AY_ACOARSE == 1
AY_BFINE == 2
AY_BCOARSE == 3
AY_CFINE == 4
AY_CCOARSE == 5
AY_NOISEPER == 6
AY_MIXER == 7
AY_AVOL == 8
AY_EFINE == 11
AY_ECOARSE == 12
AY_ESHAPE == 13
AY_PORTA == 14
AY_PORTB == 15
ENV_CONTINUE == 8
ENV_ATTACK == 4
ENV_ALTERNATE == 2
ENV_HOLD == 1

\* bounds of SpecAy
MaxAyTstates == 616
MaxAyWrites == 1
MaxAyResets == 1

\* init_volume_table: entry i of ay.volume_table
volume_table(i) ==
    IF i < 16 THEN (IF i = 0 THEN 0 ELSE (8000 * i) \div 15)
    ELSE (IF i - 16 = 0 THEN 0 ELSE (8000 * (i - 16)) \div 15)

\* ay_reset on the chip state a
ay_reset(a) ==
    [a EXCEPT !.regs = [r \in 0..15 |-> 0],
              !.selected_reg = 0,
              !.tone = [ch \in 0..2 |->
                           [counter |-> 0, period |-> 0, output |-> 1]],
              !.noise = [counter |-> 0, period |-> 0, rng |-> 1, output |-> 1],
              !.envelope = [counter |-> 0, period |-> 0, shape |-> 0,
                            step |-> 0, holding |-> FALSE, running |-> FALSE],
              !.tstates_accumulated = 0]

\* ay_init: memset, the mixer enables, then ay_reset
ay_init ==
    ay_reset([regs |-> [r \in 0..15 |-> 0], selected_reg |-> 0,
              tone |-> [ch \in 0..2 |->
                           [counter |-> 0, period |-> 0, output |-> 0]],
              noise |-> [counter |-> 0, period |-> 0, rng |-> 1, output |-> 0],
              envelope |-> [counter |-> 0, period |-> 0, shape |-> 0,
                            step |-> 0, holding |-> FALSE, running |-> FALSE],
              tstates_accumulated |-> 0,
              mixer_enable_ay |-> TRUE, mixer_enable_beeper |-> TRUE])

\* ay_write_reg(reg, val)
ay_write_reg(a, reg, val) ==
    IF reg >= 16 THEN a
    ELSE
    LET r == [a.regs EXCEPT ![reg] = val]
        b == [a EXCEPT !.regs = r]
        period(coarse, fine) ==
            LET p == (r[coarse] * 256) + r[fine] IN IF p = 0 THEN 1 ELSE p
    IN  CASE reg \in {AY_AFINE, AY_ACOARSE} ->
                [b EXCEPT !.tone[0].period = period(AY_ACOARSE, AY_AFINE)]
          [] reg \in {AY_BFINE, AY_BCOARSE} ->
                [b EXCEPT !.tone[1].period = period(AY_BCOARSE, AY_BFINE)]
          [] reg \in {AY_CFINE, AY_CCOARSE} ->
                [b EXCEPT !.tone[2].period = period(AY_CCOARSE, AY_CFINE)]
          [] reg = AY_NOISEPER ->
                [b EXCEPT !.noise.period =
                              IF val % 32 = 0 THEN 1 ELSE val % 32]
          [] reg = AY_ESHAPE ->
                [b EXCEPT !.envelope.shape = val % 16,
                          !.envelope.step = 0,
                          !.envelope.holding = FALSE,
                          !.envelope.running = TRUE,
                          !.envelope.counter = 0]
          [] reg \in {AY_EFINE, AY_ECOARSE} ->
                [b EXCEPT !.envelope.period = period(AY_ECOARSE, AY_EFINE)]
          [] OTHER -> b

\* ay_read_reg(reg)
ay_read_reg(a, reg) ==
    IF reg >= 16 THEN 255
    ELSE IF reg \in {AY_PORTA, AY_PORTB} THEN 255
    ELSE a.regs[reg]

\* get_envelope_volume
get_envelope_volume(a) ==
    LET step == a.envelope.step
        shape == a.envelope.shape
    IN  IF ~a.envelope.running THEN 0
        ELSE IF a.envelope.holding
        THEN IF BitSet(shape, ENV_HOLD)
             THEN IF BitSet(shape, ENV_ALTERNATE)
                  THEN (IF BitSet(shape, ENV_ATTACK) THEN 0 ELSE 31)
                  ELSE (IF BitSet(shape, ENV_ATTACK) THEN 31 ELSE 0)
             ELSE 0
        ELSE IF step < 32
        THEN (IF BitSet(shape, ENV_ATTACK) THEN step ELSE 31 - step)
        ELSE 0

\* a tone generator that toggles one T-state late
tone_tick_late(t) ==
    IF t.period > 0
    THEN IF t.counter + 1 > t.period * 16
         THEN [t EXCEPT !.counter = 0, !.output = 1 - t.output]
         ELSE [t EXCEPT !.counter = t.counter + 1]
    ELSE t

\* one iteration of the T-state loop of ay_step: the tone generators
tone_tick(t) ==
    IF t.period > 0
    THEN IF t.counter + 1 >= t.period * 16
         THEN [t EXCEPT !.counter = 0, !.output = 1 - t.output]
         ELSE [t EXCEPT !.counter = t.counter + 1]
    ELSE t

\* one iteration of the T-state loop of ay_step: the noise generator
noise_tick(n) ==
    IF n.period > 0
    THEN IF n.counter + 1 >= n.period * 16
         THEN LET feedback == ((n.rng % 2) + ((n.rng \div 8) % 2)) % 2
              IN  [n EXCEPT !.counter = 0,
                            !.output = n.rng % 2,
                            !.rng = (n.rng \div 2) + (feedback * 65536)]
         ELSE [n EXCEPT !.counter = n.counter + 1]
    ELSE n

\* an envelope generator that never holds
envelope_tick_no_hold(e) ==
    IF e.running /\ e.period > 0
    THEN IF e.counter + 1 >= e.period * 16
         THEN [e EXCEPT !.counter = 0, !.step = (e.step + 1) % 32]
         ELSE [e EXCEPT !.counter = e.counter + 1]
    ELSE e

\* one iteration of the T-state loop of ay_step: the envelope generator
envelope_tick(e) ==
    IF e.running /\ e.period > 0
    THEN IF e.counter + 1 >= e.period * 16
         THEN IF ~e.holding
              THEN IF e.step + 1 >= 32
                   THEN IF BitSet(e.shape, ENV_CONTINUE)
                        THEN [e EXCEPT
                                !.counter = 0,
                                !.shape =
                                    IF BitSet(e.shape, ENV_ALTERNATE)
                                    THEN IF BitSet(e.shape, ENV_ATTACK)
                                         THEN e.shape - ENV_ATTACK
                                         ELSE e.shape + ENV_ATTACK
                                    ELSE e.shape,
                                !.step = 0,
                                !.holding = BitSet(e.shape, ENV_HOLD)]
                        ELSE [e EXCEPT !.counter = 0, !.holding = TRUE,
                                       !.step = 0]
                   ELSE [e EXCEPT !.counter = 0, !.step = e.step + 1]
              ELSE [e EXCEPT !.counter = 0]
         ELSE [e EXCEPT !.counter = e.counter + 1]
    ELSE e

\* the body of for (i = 0; i < ay_ticks; i++) in ay_step
ay_tick(a) ==
    [a EXCEPT !.tone = (0 :> tone_tick(a.tone[0]))
                          @@ (1 :> tone_tick(a.tone[1]))
                          @@ (2 :> tone_tick(a.tone[2])),
              !.noise = noise_tick(a.noise),
              !.envelope = envelope_tick(a.envelope)]

\* What a listener notes over one T-state from chip state a to b: per
\* channel the T-states since the last toggle of the tone output, the
\* distance between the last two toggles made under the period now in the
\* registers (0 when there are not yet two), and the number of envelope
\* clock periods since R13 was written (up to 32).
AyObserve(o, a, b) ==
    LET toggled(ch) == b.tone[ch].output # a.tone[ch].output
        clocked == a.envelope.running /\ a.envelope.period > 0
                      /\ b.envelope.counter = 0
        since(ch) == IF toggled(ch) THEN 0 ELSE o.since[ch] + 1
        toggles(ch) == IF toggled(ch) /\ o.toggles[ch] < 2
                       THEN o.toggles[ch] + 1 ELSE o.toggles[ch]
        gap(ch) == IF toggled(ch) /\ o.toggles[ch] >= 1
                   THEN o.since[ch] + 1 ELSE o.gap[ch]
    IN  [since |-> (0 :> since(0)) @@ (1 :> since(1)) @@ (2 :> since(2)),
         toggles |-> (0 :> toggles(0)) @@ (1 :> toggles(1))
                        @@ (2 :> toggles(2)),
         gap |-> (0 :> gap(0)) @@ (1 :> gap(1)) @@ (2 :> gap(2)),
         cycle |-> IF clocked /\ o.cycle < 32 THEN o.cycle + 1 ELSE o.cycle]

AyObsStart ==
    [since |-> [ch \in 0..2 |-> 0], toggles |-> [ch \in 0..2 |-> 0],
     gap |-> [ch \in 0..2 |-> 0], cycle |-> 0]

\* the listener's record after a register write
AyObserveWrite(o, reg) ==
    IF reg \in AY_AFINE..AY_CCOARSE
    THEN [o EXCEPT !.toggles[reg \div 2] = 0, !.gap[reg \div 2] = 0]
    ELSE IF reg = AY_ESHAPE THEN [o EXCEPT !.cycle = 0]
    ELSE o

\* the T-state loop of ay_step run n times on <<chip, listener's record>>
RECURSIVE AyLoop(_, _)
AyLoop(s, n) ==
    IF n = 0 THEN s
    ELSE IF n = 1
    THEN CHOOSE r \in {<<b, AyObserve(s[2], s[1], b)>> :
                          b \in {ay_tick(s[1])}} : TRUE
    ELSE CHOOSE r \in {AyLoop(g, n - (n \div 2)) :
                          g \in {AyLoop(s, n \div 2)}} : TRUE

\* ay_step(tstates) on <<chip, listener's record>>
AyStepObs(s, tstates) ==
    IF tstates = 0 THEN s
    ELSE LET r == AyLoop(s, tstates)
         IN  <<[r[1] EXCEPT !.tstates_accumulated = @ + tstates], r[2]>>

\* ay_step(tstates)
ay_step(a, tstates) == AyStepObs(<<a, AyObsStart>>, tstates)[1]

\* the output bit of channel ch in ay_mix_samples
channel_output(a, ch) ==
    LET mixer == a.regs[AY_MIXER]
        tone_on == (mixer \div (2 ^ ch)) % 2 = 0
        noise_on == (mixer \div (2 ^ (ch + 3))) % 2 = 0
    IN  IF tone_on /\ noise_on
        THEN (IF a.tone[ch].output = 1 /\ a.noise.output = 1 THEN 1 ELSE 0)
        ELSE IF tone_on THEN a.tone[ch].output
        ELSE IF noise_on THEN a.noise.output
        ELSE 0

\* the volume index of channel ch in ay_mix_samples
channel_volume(a, ch) ==
    LET vol_reg == a.regs[AY_AVOL + ch]
    IN  IF BitSet(vol_reg, 16) THEN get_envelope_volume(a) ELSE vol_reg % 16

\* ay_mix_samples(out_buf, samples) on a buffer of int16_t samples
ay_mix_samples(a, out_buf) ==
    IF ~a.mixer_enable_ay THEN out_buf
    ELSE
    LET add(ch) == IF channel_output(a, ch) # 0
                   THEN volume_table(channel_volume(a, ch)) ELSE 0
        mix == add(0) + add(1) + add(2)
    IN  [i \in DOMAIN out_buf |->
            LET result == out_buf[i] + (mix \div 3)
            IN  IF result > 32767 THEN 32767
                ELSE IF result < -32768 THEN -32768
                ELSE result]

\* register programs a host has written by the time the run is observed
AyPrograms ==
    { <<>>,
      << <<AY_AFINE, 1>>, <<AY_BFINE, 2>>, <<AY_CFINE, 3>>,
         <<AY_AVOL, 15>>, <<AY_AVOL + 1, 7>>, <<AY_MIXER, 56>> >>,
      << <<AY_AFINE, 2>>, <<AY_NOISEPER, 1>>, <<AY_AVOL, 16>>,
         <<AY_MIXER, 17>>, <<AY_EFINE, 1>>, <<AY_ESHAPE, 13>> >>,
      << <<AY_EFINE, 1>>, <<AY_ESHAPE, 8>>, <<AY_AVOL, 16>>,
         <<AY_AFINE, 3>> >> }

AyRegs == 0..15
AyVals == {0, 9, 255}
AyStepVals == {0, 88, 264}
AySamples == {0, 32767}

RECURSIVE AyRun(_, _, _)
AyRun(a, p, k) ==
    IF k = 0 THEN a ELSE ay_write_reg(AyRun(a, p, k - 1), p[k][1], p[k][2])

AyInit ==
    /\ \E p \in AyPrograms :
          mach = [ay |-> AyRun(ay_init, p, Len(p)), writes |-> 0,
                  resets |-> 0, out_buf |-> <<>>]
    /\ obs = AyObsStart
    /\ fdc = fdc_init
    /\ images = InitImages
    /\ env = EnvInit
    /\ tape = tape_zero

AyWrite(reg, val) ==
    /\ mach.writes < MaxAyWrites
    /\ mach' = [mach EXCEPT !.ay = ay_write_reg(mach.ay, reg, val),
                            !.writes = @ + 1, !.out_buf = <<>>]
    /\ obs' = AyObserveWrite(obs, reg)
    /\ UNCHANGED <<fdc, images, env, tape>>

AyStep(tstates) ==
    /\ mach.ay.tstates_accumulated + tstates <= MaxAyTstates
    /\ LET r == AyStepObs(<<mach.ay, obs>>, tstates)
       IN  /\ mach' = [mach EXCEPT !.ay = r[1], !.out_buf = <<>>]
           /\ obs' = r[2]
    /\ UNCHANGED <<fdc, images, env, tape>>

\* the host mixes one sample into a buffer holding the beeper's sample
AyMix(sample) ==
    /\ mach.out_buf = <<>>
    /\ mach' = [mach EXCEPT !.out_buf = ay_mix_samples(mach.ay, <<sample>>)]
    /\ UNCHANGED <<fdc, images, env, tape, obs>>

AyReset ==
    /\ mach.resets < MaxAyResets
    /\ mach' = [mach EXCEPT !.ay = ay_reset(mach.ay), !.resets = @ + 1,
                            !.out_buf = <<>>]
    /\ obs' = AyObsStart
    /\ UNCHANGED <<fdc, images, env, tape>>

AyNext ==
    \/ \E reg \in AyRegs, val \in AyVals : AyWrite(reg, val)
    \/ \E tstates \in AyStepVals : AyStep(tstates)
    \/ \E sample \in AySamples : AyMix(sample)
    \/ AyReset

SpecAy == AyInit /\ [][AyNext]_vars

\* the width of AY register r: 12-bit tone periods, 5-bit noise period,
\* 5-bit volume registers, 4-bit envelope shape, 8 bits otherwise
AyMask(r) ==
    CASE r \in {AY_ACOARSE, AY_BCOARSE, AY_CCOARSE, AY_ESHAPE} -> 15
      [] r \in {AY_NOISEPER, AY_AVOL, AY_AVOL + 1, AY_AVOL + 2} -> 31
      [] OTHER -> 255

\* the step is ay_write_reg(reg, val)
IsAyWrite(reg, val) ==
    /\ mach'.writes = mach.writes + 1
    /\ mach'.ay = ay_write_reg(mach.ay, reg, val)

\* C22: for every readable AY register r (0..13) and every byte v,
\* ay_write_reg(r, v) followed by ay_read_reg(r) returns v truncated to the
\* mask of the register, never a bit outside the mask.
C22_WriteRead ==
    [][\A r \in 0..13, v \in AyVals :
          IsAyWrite(r, v) =>
              ay_read_reg(mach'.ay, r) = v % (AyMask(r) + 1)]_vars

\* C23: in ay_mix_samples the output bit of each channel is (tone_bit if
\* tone is enabled in R7, else 1) AND (noise_bit if noise is enabled, else
\* 1), for each of the four enable combinations, and the channel
\* contributes its volume level exactly when that bit is 1.
C23_ChannelBit ==
    LET a == mach.ay
        tone_enabled(ch) == ~BitSet(a.regs[AY_MIXER], 2 ^ ch)
        noise_enabled(ch) == ~BitSet(a.regs[AY_MIXER], 2 ^ (ch + 3))
        bit(ch) ==
            (IF tone_enabled(ch) THEN a.tone[ch].output ELSE 1)
               * (IF noise_enabled(ch) THEN a.noise.output ELSE 1)
        level(ch) == volume_table(channel_volume(a, ch))
    IN  /\ \A ch \in 0..2 : channel_output(a, ch) = bit(ch)
        /\ ay_mix_samples(a, <<0>>)[1] =
              ((bit(0) * level(0)) + (bit(1) * level(1))
                  + (bit(2) * level(2))) \div 3

\* the tone period held in the period registers of channel ch
TonePeriod(ch) ==
    (mach.ay.regs[(2 * ch) + 1] * 256) + mach.ay.regs[2 * ch]

SplitVals == {0, 3, 16}

-----------------------------------------------------------------------------
(* TZX blocks heard by the listener of SpecTape *)

\* the blocks played so far, the one being played last: the position of
\* each in the file and the edges heard during it
Played == Append(obs.done, [pos |-> obs.pos, wave |-> obs.wave])

\* the block of the file a played entry belongs to
BlockOf(d) == FileBlocks(tape)[d.pos]

\* the EAR toggles among the edges w
Toggles(w) == Cardinality({k \in 1..Len(w) : w[k].toggled})

\* C26: a TZX Pure Tone block with pulse count n and pulse length L
\* produces exactly n EAR toggles spaced L T-states apart, after which
\* playback continues with the next block.
C26_PureTone ==
    tape.fmt = "TZX" =>
        \A i \in 1..Len(obs.done) :
            LET d == obs.done[i]
                b == BlockOf(d)
            IN  b.id = 18 =>
                    /\ Toggles(d.wave) = b.tone_pulses
                    /\ \A k \in 1..Len(d.wave) : d.wave[k].hw = b.tone_len

\* C27: a TZX Pulse Sequence block with half-wave lengths p1..pn produces
\* exactly n EAR toggles, the first p1 T-states after the block starts and
\* the k-th pk T-states after the (k-1)-th.
C27_PulseSeq ==
    tape.fmt = "TZX" =>
        \A i \in 1..Len(obs.done) :
            LET d == obs.done[i]
                b == BlockOf(d)
            IN  (b.id = 19 /\ Len(b.seq) >= 1) =>
                    /\ Toggles(d.wave) = Len(b.seq)
                    /\ Len(d.wave) = Len(b.seq)
                    /\ \A k \in 1..Len(d.wave) :
                          k <= Len(b.seq) => d.wave[k].hw = b.seq[k]

\* C28: during a TZX Direct Recording block, whenever the engine applies
\* sample bit k (MSB first within each byte) it sets the EAR level to the
\* value of that bit (1 = high, 0 = low), one sample every
\* T-states-per-sample, for exactly the total number of used bits of the
\* block.
C28_DirectRec ==
    tape.fmt = "TZX" =>
        \A i \in 1..Len(Played) :
            LET d == Played[i]
                b == BlockOf(d)
                applied == {k \in 1..Len(d.wave) : ~d.wave[k].ended}
                used_bits == ((Len(b.data) - 1) * 8)
                                + (IF b.used = 0 THEN 8 ELSE b.used)
            IN  (b.id = 21 /\ Len(b.data) >= 1) =>
                    /\ \A k \in applied :
                          /\ k <= used_bits
                          /\ d.wave[k].hw = b.ts
                          /\ d.wave[k].level =
                                BitOf(b.data[((k - 1) \div 8) + 1],
                                      7 - ((k - 1) % 8))
                    /\ i <= Len(obs.done) => Cardinality(applied) = used_bits

\* the blocks that produce a signal or a pause
Emitting(b) == b.id \in {16, 17, 18, 19, 20, 21} \/ (b.id = 32 /\ b.ms > 0)

\* the file positions of the blocks played so far, in order
PlayedPos == [i \in 1..Len(Played) |-> Played[i].pos]

\* the Loop End block that closes the Loop Start block at position s
LoopEndOf(s) ==
    CHOOSE e \in s + 1..Len(FileBlocks(tape)) :
        /\ FileBlocks(tape)[e].id = 37
        /\ \A j \in s + 1..e - 1 : FileBlocks(tape)[j].id # 37

\* the loops of the file: a Loop Start with count >= 1 and its Loop End
Loops ==
    {s \in 1..Len(FileBlocks(tape)) :
        /\ FileBlocks(tape)[s].id = 36
        /\ FileBlocks(tape)[s].count >= 1
        /\ \E e \in s + 1..Len(FileBlocks(tape)) : FileBlocks(tape)[e].id = 37}

\* C29: for a Loop Start block with count N >= 1 and its Loop End block,
\* the blocks between them are played exactly N times in order, after
\* which playback continues with the block following Loop End.
C29_Loop ==
    tape.fmt = "TZX" =>
        \A s \in Loops :
            LET e == LoopEndOf(s)
                N == FileBlocks(tape)[s].count
                Between(x) == s < x /\ x < e
                EmittingBetween(x) ==
                    Between(x) /\ Emitting(FileBlocks(tape)[x])
                After(x) == x > e
                body == SelectSeq([x \in 1..Len(FileBlocks(tape)) |-> x],
                                  EmittingBetween)
                inside == SelectSeq(PlayedPos, Between)
                after == SelectSeq(PlayedPos, After)
            IN  /\ Len(inside) <= N * Len(body)
                /\ \A j \in 1..Len(inside) :
                      inside[j] = body[((j - 1) % Len(body)) + 1]
                /\ after # << >> =>
                      /\ Len(inside) = N * Len(body)
                      /\ \A j \in e + 1..after[1] - 1 :
                            ~Emitting(FileBlocks(tape)[j])
                      /\ \A i \in 1..Len(PlayedPos), j \in 1..Len(PlayedPos) :
                            (Between(PlayedPos[i]) /\ After(PlayedPos[j]))
                                => i < j

\* a loop of two passes is over and the block after Loop End is played
C29_Witness ==
    /\ tape.fmt = "TZX"
    /\ \E s \in Loops :
          /\ FileBlocks(tape)[s].count >= 2
          /\ \E i \in 1..Len(PlayedPos) : PlayedPos[i] > LoopEndOf(s)

\* the block ids tzx_read_and_prepare_next_block has a case for
SupportedIds ==
    {0, 2, 16, 17, 18, 19, 20, 21, 24, 25, 32, 33, 34, 36, 37, 42, 43, 48,
     49, 50, 51, 53, 90}

\* the last block read is a Pause of duration 0, a Stop-if-48K or a block
\* the engine does not support
ReachedStop(t) ==
    /\ t.fmt = "TZX"
    /\ t.file_pos >= 1
    /\ LET b == FileBlocks(t)[t.file_pos]
       IN  \/ b.id = 32 /\ b.ms = 0
           \/ b.id = 42
           \/ b.id \notin SupportedIds

\* C30: when TZX playback reaches a Pause block of duration 0, a
\* Stop-if-48K block or a block id the engine does not support, the engine
\* enters Idle with playing = false and EAR high, and every later EAR read
\* returns high without changing the engine state.
C30_Stop ==
    [][/\ (ReachedStop(tape') /\ ~ReachedStop(tape)) =>
             /\ tape'.phase = "IDLE"
             /\ ~tape'.playing
             /\ tape'.level
       /\ (ReachedStop(tape) /\ mach'.presses = mach.presses) =>
             /\ tape' = tape
             /\ EarLevel(tape, tape')
      ]_vars

\* playback has stopped at an unsupported block and the port has been read
\* a frame later
C30_Witness ==
    /\ ReachedStop(tape)
    /\ FileBlocks(tape)[tape.file_pos].id \notin SupportedIds
    /\ mach.stopped >= 1

\* the T-states from the first edge heard in w up to and including edge i
RECURSIVE WaveTime(_, _)
WaveTime(w, i) == IF i = 0 THEN 0 ELSE WaveTime(w, i - 1) + w[i].hw

\* the EAR level heard T T-states after the start of the block with edges w
\* (T before the last edge heard)
LevelAt(w, T) ==
    LET i == CHOOSE i \in 1..Len(w) :
                 /\ WaveTime(w, i) > T
                 /\ \A m \in 1..i - 1 : WaveTime(w, m) <= T
    IN  IF w[i].toggled THEN ~w[i].level ELSE w[i].level

\* the EAR level toggles T T-states after the start of the block
EdgeAt(w, T) == \E i \in 1..Len(w) : WaveTime(w, i) = T /\ w[i].toggled

\* the T-states from the start of a 0x19 block to the start of its symbol
\* j: the pulses of the symbols before it
RECURSIVE SymbolStart(_, _)
SymbolStart(syms, j) ==
    IF j <= 1 THEN 0
    ELSE LET RECURSIVE sum(_)
             sum(p) == IF p = 0 THEN 0
                       ELSE sum(p - 1) + syms[j - 1].pulses[p]
         IN  SymbolStart(syms, j - 1) + sum(Len(syms[j - 1].pulses))

\* C31: in a TZX Generalized Data block, in the played waveform every
\* symbol with polarity flag 10 begins with the EAR level low and every
\* symbol with flag 11 begins with it high, a symbol with flag 01 begins
\* without a toggle and a symbol with flag 00 begins with a toggle.
C31_Polarity ==
    tape.fmt = "TZX" =>
        \A i \in 1..Len(Played) :
            LET d == Played[i]
                b == BlockOf(d)
                syms == tzx19_symbols(b)
            IN  b.id = 25 =>
                    \A j \in 1..Len(syms) :
                        LET T == SymbolStart(syms, j)
                            pol == syms[j].flags % 4
                        IN  (/\ syms[j].pulses # << >>
                             /\ T < WaveTime(d.wave, Len(d.wave))) =>
                                /\ pol = 2 => ~LevelAt(d.wave, T)
                                /\ pol = 3 => LevelAt(d.wave, T)
                                /\ (pol = 1 /\ T > 0) => ~EdgeAt(d.wave, T)
                                /\ (pol = 0 /\ T > 0) => EdgeAt(d.wave, T)

\* ---------------------------------------------------------------------
\* The two memory back-ends: MinZX (src/src/minzx.cpp) and write_byte
\* (src/minzx.c).  mach holds the C++ machine's memory at the addresses
\* of MemAddrs (mem), its frame T-state counter (tstates), whether
\* update() is running (in_update), the C machine's written bytes (ram),
\* the last access made (last) and the number of accesses so far (ops).
\* ---------------------------------------------------------------------
cycleTstates         == 69888

MaxAccesses == 2

MemAddrs    == {0, 16383, 16384, 32767, 32768}
MemVals     == {0, 165}
\* points of the frame at which the accesses of the model begin
FrameStarts == {0, 14334, 14335, 14336, 14342, 14462, 14463, 14464,
                14559, 57342, 57343, 57344, 69886}

wait_states == <<6, 5, 4, 3, 2, 1, 0, 0>>

\* delay_contention: the table is looked up one T-state ahead
delay_contention(address, tstates) ==
    LET t1      == tstates + 1
        line    == t1 \div 224
        halfpix == t1 % 224
    IN  IF line < 64 \/ line >= 256 THEN 0
        ELSE IF halfpix >= 128 THEN 0
        ELSE wait_states[(halfpix % 8) + 1]

\* addTstates (the counter stays far below 2^32 within a frame)
addTstates(m, delta) ==
    IF delta = 0 THEN m
    ELSE [m EXCEPT !.tstates = m.tstates + delta]

Contend(m, address) ==
    IF address \div 16384 = 1
    THEN addTstates(m, delay_contention(address, m.tstates))
    ELSE m

Accessed(m, n, op, address) ==
    [n EXCEPT !.ops = m.ops + 1,
              !.last = [op |-> op, address |-> address, t |-> m.tstates,
                        added |-> n.tstates - m.tstates]]

\* MinZX::fetchOpcode
fetchOpcode(m, address) == addTstates(Contend(m, address), 4)

\* MinZX::peek8
peek8(m, address) == addTstates(Contend(m, address), 3)

\* MinZX::poke8
poke8(m, address, value) ==
    [addTstates(Contend(m, address), 3) EXCEPT !.mem[address] = value]

\* MinZX::init and loadROM: memory zeroed, then the ROM file (when it
\* opens) read into 0x0000..0x3FFF
RomByte(a) == IF a = 0 THEN 243 ELSE 60

MemInitCpp(rom) ==
    [a \in MemAddrs |-> IF rom /\ a < 16384 THEN RomByte(a) ELSE 0]

MemOther ==
    /\ obs = ObsStart(0, 0)
    /\ fdc = fdc_init
    /\ images = InitImages
    /\ env = EnvInit
    /\ tape = tape_zero

MemInit2 ==
    /\ \E rom \in BOOLEAN, t0 \in FrameStarts :
          mach = [mem |-> MemInitCpp(rom), tstates |-> t0,
                  in_update |-> TRUE, ram |-> << >>, ops |-> 0,
                  last |-> [op |-> "none", address |-> 0, t |-> 0,
                            added |-> 0]]
    /\ MemOther

MemCanAccess == mach.in_update /\ mach.ops < MaxAccesses

FetchOpcode(address) ==
    /\ MemCanAccess
    /\ mach' = Accessed(mach, fetchOpcode(mach, address), "fetchOpcode",
                        address)
    /\ UNCHANGED <<fdc, images, env, tape, obs>>

Peek8(address) ==
    /\ MemCanAccess
    /\ mach' = Accessed(mach, peek8(mach, address), "peek8", address)
    /\ UNCHANGED <<fdc, images, env, tape, obs>>

Poke8(address, value) ==
    /\ MemCanAccess
    /\ mach' = Accessed(mach, poke8(mach, address, value), "poke8", address)
    /\ UNCHANGED <<fdc, images, env, tape, obs>>

\* write_byte of src/minzx.c, on the C machine's memory
WriteByte(addr, val) ==
    /\ mach.ops < MaxAccesses
    /\ mach' = Accessed(mach, write_byte(mach, addr, val), "write_byte",
                        addr)
    /\ UNCHANGED <<fdc, images, env, tape, obs>>

\* MinZX::update, after its loop: the frame's T-states are taken off
UpdateEnd ==
    /\ mach.in_update
    /\ mach.tstates >= cycleTstates
    /\ mach' = [mach EXCEPT !.tstates = mach.tstates - cycleTstates,
                            !.in_update = FALSE,
                            !.last.op = "none"]
    /\ UNCHANGED <<fdc, images, env, tape, obs>>

\* MinZX::update, before its loop: the counter starts again at 0
UpdateStart ==
    /\ ~mach.in_update
    /\ mach' = [mach EXCEPT !.tstates = 0, !.in_update = TRUE,
                            !.last.op = "none"]
    /\ UNCHANGED <<fdc, images, env, tape, obs>>

MemNext ==
    \/ \E address \in MemAddrs : FetchOpcode(address)
    \/ \E address \in MemAddrs : Peek8(address)
    \/ \E address \in MemAddrs, value \in MemVals : Poke8(address, value)
    \/ \E addr \in MemAddrs, val \in MemVals : WriteByte(addr, val)
    \/ UpdateEnd
    \/ UpdateStart

SpecMem == MemInit2 /\ [][MemNext]_vars

\* the T-states an accessor adds when there is no contention
BaseTstates(op) == IF op = "fetchOpcode" THEN 4 ELSE 3

\* C32: an access (fetchOpcode, peek8 or poke8) to a contended address
\* (0x4000..0x7FFF) made at frame T-state t is delayed by the entry of
\* {6,5,4,3,2,1,0,0} indexed by (t mod 224) mod 8 when the scanline
\* t / 224 is in 64..255 and t mod 224 is in 0..127, and by 0 otherwise.
C32_Contention ==
    (/\ mach.last.op \in {"fetchOpcode", "peek8", "poke8"}
     /\ mach.last.address >= 16384
     /\ mach.last.address <= 32767)
    => mach.last.added - BaseTstates(mach.last.op)
         = (LET t == mach.last.t
            IN  IF /\ t \div 224 \in 64..255
                   /\ t % 224 \in 0..127
                THEN wait_states[((t % 224) % 8) + 1]
                ELSE 0)

\* C33: no CPU memory write changes a byte at 0x0000..0x3FFF: a write
\* aimed at the ROM region by either back-end (write_byte, MinZX::poke8)
\* leaves the whole memory as it was.
C33_RomReadOnly ==
    [][\A address \in MemAddrs, value \in MemVals :
          address < 16384 =>
             /\ Poke8(address, value) => mach'.mem = mach.mem
             /\ WriteByte(address, value) => mach'.ram = mach.ram]_vars

\* ---------------------------------------------------------------------
\* Loading files (src/minzx.c: main's argument loop, F6, load_tap,
\* load_tzx, load_sna).  mach holds the CPU registers (cpu), the snapshot
\* whose RAM image is in memory (sna, 0 for none), border_color,
\* tape_filename (a sequence, empty for NULL), the clock and what the
\* last load did.
\* ---------------------------------------------------------------------
MaxLoads    == 2
MaxLoadRuns == 2

Missing(i) == [file |-> i, there |-> FALSE, hdr |-> TRUE]
BadHeader(i) == [file |-> i, there |-> TRUE, hdr |-> FALSE]

TapNames == {FileName(1), FileName(3), FileName(0), Missing(1)}
TzxNames == {FileName(1), FileName(0), Missing(1), BadHeader(1)}

\* a .sna file: the snapshot it was cut from, whether it opens, whether
\* its 27-byte header and its 49152-byte RAM image are complete
SnaFiles ==
    {[p |-> q, border |-> 2, there |-> th, header |-> h, ram |-> r] :
        q \in {x \in Programs : x.sna /\ x.last = 118},
        th \in BOOLEAN, h \in BOOLEAN, r \in BOOLEAN}

\* load_sna on the machine m: <<ok, machine>>
load_sna_file(m, s) ==
    IF ~s.there \/ ~s.header THEN <<FALSE, m>>
    ELSE IF ~s.ram
    THEN <<FALSE, [m EXCEPT !.cpu = load_sna_header(m.cpu, s.p),
                            !.border_color = s.border % 8,
                            !.sna = [p |-> s.p, whole |-> FALSE]]>>
    ELSE <<TRUE, [m EXCEPT !.cpu = load_sna(m.cpu, s.p),
                           !.border_color = s.border % 8,
                           !.sna = [p |-> s.p, whole |-> TRUE]]>>

\* what a failed load is to leave alone
Snapshot(t, m) ==
    [cpu |-> m.cpu, sna |-> m.sna, border_color |-> m.border_color,
     f |-> t.f, file |-> t.file, file_pos |-> t.file_pos,
     phase |-> t.phase, playing |-> t.playing]

LoadInit ==
    /\ tape = tape_zero
    /\ mach = [cpu |-> z80_init, sna |-> 0, border_color |-> 7,
               tape_filename |-> << >>, global_cycles |-> 0, started |-> FALSE,
               loads |-> 0, runs |-> 0, ok |-> TRUE, last |-> "init",
               before |-> Snapshot(tape_zero,
                                   [cpu |-> z80_init, sna |-> 0,
                                    border_color |-> 7])]
    /\ obs = ObsStart(1, 0)
    /\ fdc = fdc_init
    /\ images = InitImages
    /\ env = EnvInit

\* a tape load and what the caller sees of it
TapeLoaded(r, fmt, name) ==
    /\ tape' = r[2]
    /\ mach' = [mach EXCEPT
          !.loads = @ + 1, !.ok = r[1], !.last = "load",
          !.before = Snapshot(tape, mach),
          !.border_color = IF r[1] THEN 7 ELSE @,
          !.tape_filename = IF r[1] THEN <<[fmt |-> fmt, name |-> name]>>
                            ELSE @]
    /\ obs' = IF r[1] THEN [ObsStart(1, mach.global_cycles)
                               EXCEPT !.pos = r[2].file_pos]
              ELSE obs
    /\ UNCHANGED <<fdc, images, env>>

\* main: a .tap argument
MainLoadTap(name) ==
    /\ ~mach.started /\ mach.loads < MaxLoads
    /\ TapeLoaded(load_tap(tape, name, mach.global_cycles), "TAP", name)

\* main: a .tzx argument
MainLoadTzx(name) ==
    /\ ~mach.started /\ mach.loads < MaxLoads
    /\ TapeLoaded(load_tzx(tape, name, mach.global_cycles), "TZX", name)

\* main: a .sna argument
MainLoadSna(s) ==
    /\ ~mach.started /\ mach.loads < MaxLoads
    /\ LET r == load_sna_file(mach, s)
       IN  mach' = [r[2] EXCEPT !.loads = @ + 1, !.ok = r[1],
                                !.last = "load",
                                !.before = Snapshot(tape, mach)]
    /\ UNCHANGED <<fdc, images, env, tape, obs>>

\* main: the arguments are done, the frame loop begins
LoadStart ==
    /\ ~mach.started
    /\ mach' = [mach EXCEPT !.started = TRUE, !.last = "start"]
    /\ UNCHANGED <<fdc, images, env, tape, obs>>

\* a frame in which the program reads port 0xFE at its end
LoadRun ==
    /\ mach.started /\ mach.runs < MaxLoadRuns
    /\ LET now == mach.global_cycles + CYCLES_PER_FRAME
           r == PortInEar(<<tape, obs>>, now)
       IN  /\ tape' = r[1]
           /\ obs' = r[2]
           /\ mach' = [mach EXCEPT !.global_cycles = now, !.runs = @ + 1,
                                   !.last = "run"]
    /\ UNCHANGED <<fdc, images, env>>

\* handle_input, F6: the tape named by tape_filename is loaded again; the
\* file may have gone since
LoadF6(there) ==
    /\ mach.started /\ mach.loads < MaxLoads
    /\ Len(mach.tape_filename) > 0
    /\ LET named == mach.tape_filename[1]
           name == [named.name EXCEPT !.there = there]
       IN  IF named.fmt = "TAP"
           THEN TapeLoaded(load_tap(tape, name, mach.global_cycles),
                           "TAP", named.name)
           ELSE TapeLoaded(load_tzx(tape, name, mach.global_cycles),
                           "TZX", named.name)

LoadNext ==
    \/ \E name \in TapNames : MainLoadTap(name)
    \/ \E name \in TzxNames : MainLoadTzx(name)
    \/ \E s \in SnaFiles : MainLoadSna(s)
    \/ LoadStart
    \/ LoadRun
    \/ \E there \in BOOLEAN : LoadF6(there)

SpecLoad == LoadInit /\ [][LoadNext]_vars

\* C34: when load_tap, load_tzx or load_sna fails (returns false) the
\* emulator is left in its prior state: CPU registers, memory, border
\* colour and the previously loaded tape (open file, position, phase and
\* playing flag) are as they were before the call.
C34_FailedLoad ==
    (mach.last = "load" /\ ~mach.ok) => Snapshot(tape, mach) = mach.before

\* ---------------------------------------------------------------------
\* The tape schedule and the times of polling (SpecTape)
\* ---------------------------------------------------------------------
\* what the schedule of the engine consists of
Schedule(t) ==
    [phase |-> t.phase, file_pos |-> t.file_pos, data_pos |-> t.data_pos,
     cur_bit |-> t.cur_bit, pulse_of_bit |-> t.pulse_of_bit,
     pulses_left |-> t.pulses_left, pulse_seq_i |-> t.pulse_seq_i,
     dr_bit_index |-> t.dr_bit_index, level |-> t.level,
     next_edge_cycle |-> t.next_edge_cycle, playing |-> t.playing]

PolledAt(s, now) == get_current_ear_level_from_tape(s, now)

\* C35: the edge schedule does not depend on when the engine is polled:
\* for now1 <= now2 (here one scanline and one frame after the clock),
\* polling at now1 and then at now2 leaves the engine in the same state
\* (phase, data cursor, level, next_edge_cycle) as one poll at now2.
C35_PollIndependent ==
    LET now1 == mach.global_cycles + LINE_TSTATES
        now2 == mach.global_cycles + CYCLES_PER_FRAME
    IN  Schedule(PolledAt(PolledAt(<<tape, obs>>, now1), now2)[1])
          = Schedule(PolledAt(<<tape, obs>>, now2)[1])

\* the point of the pulse stream the engine is at
Cursor(t) ==
    [phase |-> t.phase, file_pos |-> t.file_pos, data_pos |-> t.data_pos,
     cur_bit |-> t.cur_bit, pulse_of_bit |-> t.pulse_of_bit,
     pulses_left |-> t.pulses_left, pulse_seq_i |-> t.pulse_seq_i,
     dr_bit_index |-> t.dr_bit_index, level |-> t.level]

\* F7 pressed at now on a stopped tape, and the next read of the EAR bit
Resumed(t, o, now) ==
    PortInEar(<<[t EXCEPT !.playing = TRUE], o>>, now)[1]

\* C36: while the tape is stopped (playing false after F7, or a TZX file
\* loaded and not yet played) the Clock time that passes consumes no edge:
\* pressing play after the time has passed resumes from the same point of
\* the pulse stream as pressing play before it passed.
C36_StoppedTime ==
    [][(/\ ~tape.playing /\ tape.f /\ tape.phase # "IDLE"
        /\ mach'.global_cycles > mach.global_cycles)
       => Cursor(Resumed(tape', obs', mach'.global_cycles))
            = Cursor(Resumed(tape, obs, mach.global_cycles))]_vars

\* C37: the EAR level changes only at scheduled edges: when a TZX block
\* follows another with no Set Signal Level block (0x2B) between them, the
\* first half-wave of the new block starts at the level left by the last
\* edge of the block before.
C37_LevelKept ==
    tape.fmt = "TZX" =>
        \A i \in 1..Len(obs.done) :
            LET d == obs.done[i]
            IN  (/\ ~d.looping
                 /\ d.to > d.from
                 /\ \A j \in d.from + 1..d.to : FileBlocks(tape)[j].id # 43)
                => d.start = d.left

\* ---------------------------------------------------------------------
\* The drive bits of the FDC status register (SpecFdc)
\* ---------------------------------------------------------------------
\* C38: in every reachable FDC state (after any sequence of attach,
\* detach, control-port writes, commands and fdc_reset) the NOT_READY
\* status bit is set if and only if the selected drive has no image.
C38_NotReady ==
    (FDC_STATUS_NOT_READY \in fdc.status)
        <=> (fdc_get_current_drive(fdc) = NULL)

\* C39: WRITE_PROTECT reflects only the most recent command: once a
\* command other than a Write Sector refused for a read-only image has
\* been issued, WRITE_PROTECT is clear in the status register.
C39_WriteProtect ==
    [][\A cmd \in CmdVals :
          (/\ IsCommandStep(cmd)
           /\ ~(/\ HighNibble(cmd) = FDC_CMD_WRITE_SECTOR
                /\ ReadOnlySelected(fdc)))
          => FDC_STATUS_WRITE_PROT \notin fdc'.status]_vars

\* ---------------------------------------------------------------------
\* The geometry of a mounted image and the size of its file (SpecDisk)
\* ---------------------------------------------------------------------
GeoTracks  == {0, 1, 39, 40, 79, 80}
GeoHeads   == {0, 1, 2}
GeoSectors == {0, 15, 16}

\* C40: for every image that trd_open mounts, tracks * sides * 16 * 256
\* equals the size of the image file, so every (track, side, sector) that
\* trd_get_offset accepts addresses 256 bytes inside the file, and distinct
\* triples address disjoint ranges.
C40_Geometry ==
    images.opened =>
        LET img == IF images.src.kind = "SCL" THEN scl_get_trd(images.img)
                   ELSE images.img
            size == FileSize(images.src)
            triples == {x \in GeoTracks \X GeoHeads \X GeoSectors :
                           trd_get_offset(img, x[1], x[2], x[3]) >= 0}
            off(x) == trd_get_offset(img, x[1], x[2], x[3])
        IN  /\ img.tracks * img.sides * TRD_SECTORS_PER_TRACK
                 * TRD_SECTOR_SIZE = size
            /\ \A x \in triples : off(x) + TRD_SECTOR_SIZE <= size
            /\ \A x, y \in triples :
                  x # y => \/ off(x) + TRD_SECTOR_SIZE <= off(y)
                           \/ off(y) + TRD_SECTOR_SIZE <= off(x)

====
